---- MODULE Spec2Model ----
(***************************************************************************)
(* A model of the wheel rename engine of spare_tire (rename.py): the       *)
(* file-based operation rename_wheel and the in-memory operation           *)
(* rename_wheel_from_bytes, with the filename grammar, the name            *)
(* normalisation, the METADATA and import rewriting and the RECORD         *)
(* regeneration they are built from.                                       *)
(*                                                                         *)
(* Text is modelled character by character: a Python str/bytes value is a  *)
(* TLA+ string, indexed with SubSeq.  Archive entries hold ASCII text, so  *)
(* one character is one byte.                                              *)
(***************************************************************************)
EXTENDS Integers, Sequences, FiniteSets, TLC

(***************************************************************************)
(* Characters and strings (Python str operations used by rename.py)        *)
(***************************************************************************)

\* s[i-1] in Python: the one-character string at 1-based position i.
Ch(s, i) == SubSeq(s, i, i)

\* The printable ASCII characters in code-point order: 32 (space) to 95, and
\* 97 to 126 (the backquote, 96, is not used by the model).
PrintableLow ==
    " !\"#$%&'()*+,-./0123456789:;<=>?@ABCDEFGHIJKLMNOPQRSTUVWXYZ[\\]^_"

PrintableHigh == "abcdefghijklmnopqrstuvwxyz{|}~"

\* chr(n) for the characters the model uses.
Chr == [n \in {9, 10, 13} \cup (32..95) \cup (97..126) |->
          IF n = 9 THEN "\t" ELSE IF n = 10 THEN "\n" ELSE IF n = 13 THEN "\r"
          ELSE IF n <= 95 THEN Ch(PrintableLow, n - 31)
          ELSE Ch(PrintableHigh, n - 96)]

\* ord(c): the code point of a character.
Ord == [c \in {Chr[n] : n \in DOMAIN Chr} |-> CHOOSE n \in DOMAIN Chr : Chr[n] = c]

\* str.isdigit() on one character.
IsDigit(c) == Ord[c] >= 48 /\ Ord[c] <= 57

\* The regular expression class \w on one character.
IsWord(c) ==
    \/ IsDigit(c)
    \/ (Ord[c] >= 65 /\ Ord[c] <= 90)
    \/ (Ord[c] >= 97 /\ Ord[c] <= 122)
    \/ c = "_"

\* The regular expression class \s on one character.
IsSpace(c) == c \in {" ", "\t", "\n", "\r"}

\* str.lower() on one character.
LowerCh(c) == IF Ord[c] >= 65 /\ Ord[c] <= 90 THEN Chr[Ord[c] + 32] ELSE c

\* s.startswith(p), s.endswith(p), s[n:], p in s.
StartsWith(s, p) == Len(p) <= Len(s) /\ SubSeq(s, 1, Len(p)) = p
EndsWith(s, p) == Len(p) <= Len(s) /\ SubSeq(s, Len(s) - Len(p) + 1, Len(s)) = p
Drop(s, n) == SubSeq(s, n + 1, Len(s))
Contains(s, p) == \E i \in 1..(Len(s) - Len(p) + 1) : SubSeq(s, i, i + Len(p) - 1) = p

\* s.find(c): the first position of character c in s, 0 when there is none.
IndexOf(s, c) ==
    IF \E i \in 1..Len(s) : Ch(s, i) = c
    THEN CHOOSE i \in 1..Len(s) : Ch(s, i) = c /\ \A j \in 1..(i - 1) : Ch(s, j) # c
    ELSE 0

\* s.split(sep) for a one-character separator: a sequence of strings.
RECURSIVE Split(_, _)
Split(s, sep) ==
    LET i == IndexOf(s, sep)
    IN  IF i = 0 THEN <<s>> ELSE <<SubSeq(s, 1, i - 1)>> \o Split(Drop(s, i), sep)

\* sep.join(parts).
RECURSIVE Join(_, _)
Join(parts, sep) ==
    IF Len(parts) = 0 THEN ""
    ELSE IF Len(parts) = 1 THEN parts[1]
    ELSE parts[1] \o sep \o Join(Tail(parts), sep)

\* s.rsplit(sep, 1): split once at the last occurrence of sep.
LastIndexOf(s, c) ==
    IF \E i \in 1..Len(s) : Ch(s, i) = c
    THEN CHOOSE i \in 1..Len(s) : Ch(s, i) = c /\ \A j \in (i + 1)..Len(s) : Ch(s, j) # c
    ELSE 0

RSplit1(s, sep) ==
    LET i == LastIndexOf(s, sep)
    IN  IF i = 0 THEN <<s>> ELSE <<SubSeq(s, 1, i - 1), Drop(s, i)>>

\* s.replace(p, "") : every non-overlapping occurrence of p removed, left to right.
RECURSIVE RemoveAllFrom(_, _, _)
RemoveAllFrom(s, p, i) ==
    IF i > Len(s) THEN ""
    ELSE IF i + Len(p) - 1 <= Len(s) /\ SubSeq(s, i, i + Len(p) - 1) = p
         THEN RemoveAllFrom(s, p, i + Len(p))
         ELSE Ch(s, i) \o RemoveAllFrom(s, p, i + 1)

RemoveAll(s, p) == RemoveAllFrom(s, p, 1)

\* str(n) for a natural number.
RECURSIVE ToDec(_)
ToDec(n) == IF n < 10 THEN Chr[48 + n] ELSE ToDec(n \div 10) \o Chr[48 + (n % 10)]

\* a < b for Python strings: lexicographic by code point.
RECURSIVE StrLess(_, _)
StrLess(a, b) ==
    IF Len(b) = 0 THEN FALSE
    ELSE IF Len(a) = 0 THEN TRUE
    ELSE IF Ch(a, 1) = Ch(b, 1) THEN StrLess(Drop(a, 1), Drop(b, 1))
    ELSE Ord[Ch(a, 1)] < Ord[Ch(b, 1)]

\* sorted(S) for a set of strings.
RECURSIVE Sorted(_)
Sorted(S) ==
    IF S = {} THEN <<>>
    ELSE LET m == CHOOSE x \in S : \A y \in S \ {x} : StrLess(x, y)
         IN  <<m>> \o Sorted(S \ {m})

\* Path(name).suffix and Path(name).stem for a name without directories.
PathSuffix(name) ==
    LET i == LastIndexOf(name, ".")
    IN  IF i > 1 /\ i < Len(name) THEN Drop(name, i - 1) ELSE ""

PathStem(name) == SubSeq(name, 1, Len(name) - Len(PathSuffix(name)))

(***************************************************************************)
(* Filename grammar and name normalisation                                 *)
(***************************************************************************)

\* re.sub(r"[-_.]+", "_", name).lower()
RECURSIVE NormalizeFrom(_, _)
NormalizeFrom(name, i) ==
    IF i > Len(name) THEN ""
    ELSE IF Ch(name, i) \in {"-", "_", "."}
         THEN (IF i > 1 /\ Ch(name, i - 1) \in {"-", "_", "."} THEN "" ELSE "_")
              \o NormalizeFrom(name, i + 1)
         ELSE LowerCh(Ch(name, i)) \o NormalizeFrom(name, i + 1)

normalize_name(name) == NormalizeFrom(name, 1)

\* _parse_wheel_filename without the build-tag test: the third segment is
\* always taken as the interpreter tag.
parse_wheel_filename_nobuild(filename) ==
    LET parts == Split(PathStem(filename), "-")
    IN  IF Len(parts) < 5 THEN [raises |-> "ValueError"]
        ELSE [raises |-> "", distribution |-> parts[1], version |-> parts[2],
              build |-> "", python |-> parts[3], abi |-> parts[4],
              platform |-> parts[5]]

\* _parse_wheel_filename: the components, or the exception raised.
parse_wheel_filename(filename) ==
    LET parts == Split(PathStem(filename), "-")
    IN  IF Len(parts) < 5 THEN [raises |-> "ValueError"]
        ELSE IF Len(parts) >= 6 /\ Len(parts[3]) = 0 THEN [raises |-> "IndexError"]
        ELSE IF Len(parts) >= 6 /\ IsDigit(Ch(parts[3], 1))
             THEN [raises |-> "", distribution |-> parts[1], version |-> parts[2],
                   build |-> parts[3], python |-> parts[4], abi |-> parts[5],
                   platform |-> parts[6]]
             ELSE [raises |-> "", distribution |-> parts[1], version |-> parts[2],
                   build |-> "", python |-> parts[3], abi |-> parts[4],
                   platform |-> parts[5]]

\* _build_wheel_filename without the build segment.
build_wheel_filename_nobuild(components) ==
    Join(<<components.distribution, components.version,
           components.python, components.abi, components.platform>>, "-")
    \o ".whl"

\* _build_wheel_filename
build_wheel_filename(components) ==
    Join(<<components.distribution, components.version>>
         \o (IF components.build # "" THEN <<components.build>> ELSE <<>>)
         \o <<components.python, components.abi, components.platform>>, "-")
    \o ".whl"

(***************************************************************************)
(* Content rewriting                                                       *)
(***************************************************************************)

\* _compute_record_hash.  SHA-256 is modelled by a small deterministic
\* digest of the bytes (a polynomial checksum), rendered in decimal in place
\* of the url-safe base64 text; the "sha256=" prefix is the code's.
DigestModulus == 65521

RECURSIVE Checksum(_, _, _)
Checksum(data, lo, hi) ==
    IF lo > hi THEN 0
    ELSE IF lo = hi THEN (lo * Ord[Ch(data, lo)]) % DigestModulus
    ELSE LET mid == (lo + hi) \div 2
         IN  (Checksum(data, lo, mid) + Checksum(data, mid + 1, hi)) % DigestModulus

compute_record_hash(data) == "sha256=" \o ToDec(Checksum(data, 1, Len(data)))

\* One line of _update_metadata's loop.
MetadataLine(line, new_name) ==
    IF StartsWith(line, "Name:") THEN "Name: " \o new_name ELSE line

\* _update_metadata(content, _old_name, new_name)
update_metadata(content, old_name, new_name) ==
    LET lines == Split(content, "\n")
    IN  Join([i \in 1..Len(lines) |-> MetadataLine(lines[i], new_name)], "\n")

\* The regular expression assertion \b in the gap after position k of text.
WordAt(text, k) == k >= 1 /\ k <= Len(text) /\ IsWord(Ch(text, k))
Boundary(text, k) == WordAt(text, k) # WordAt(text, k + 1)

\* rf"\bfrom {re.escape(old_name)}(\s|\.)" matches text at position i.
MatchFromImport(text, i, old_name) ==
    LET lit == "from " \o old_name
    IN  /\ i + Len(lit) <= Len(text)
        /\ SubSeq(text, i, i + Len(lit) - 1) = lit
        /\ Boundary(text, i - 1)
        /\ (IsSpace(Ch(text, i + Len(lit))) \/ Ch(text, i + Len(lit)) = ".")

\* re.sub of the first pattern on text from position i: the text up to the
\* next match is copied, the match is replaced by rf"from {new_name}\1" and
\* the scan resumes after the match.
RECURSIVE SubFromImport(_, _, _, _)
SubFromImport(text, i, old_name, new_name) ==
    LET M == {j \in i..Len(text) : MatchFromImport(text, j, old_name)}
    IN  IF M = {} THEN Drop(text, i - 1)
        ELSE LET j == CHOOSE m \in M : \A n \in M : m <= n
             IN  SubSeq(text, i, j - 1) \o "from " \o new_name
                 \o Ch(text, j + 5 + Len(old_name))
                 \o SubFromImport(text, j + 6 + Len(old_name), old_name, new_name)

\* rf"\bimport {re.escape(old_name)}\b" matches text at position i.
MatchImport(text, i, old_name) ==
    LET lit == "import " \o old_name
    IN  /\ i + Len(lit) - 1 <= Len(text)
        /\ SubSeq(text, i, i + Len(lit) - 1) = lit
        /\ Boundary(text, i - 1)
        /\ Boundary(text, i + Len(lit) - 1)

\* re.sub of the second pattern on text from position i.
RECURSIVE SubImport(_, _, _, _)
SubImport(text, i, old_name, new_name) ==
    LET M == {j \in i..Len(text) : MatchImport(text, j, old_name)}
    IN  IF M = {} THEN Drop(text, i - 1)
        ELSE LET j == CHOOSE m \in M : \A n \in M : m <= n
             IN  SubSeq(text, i, j - 1) \o "import " \o new_name
                 \o SubImport(text, j + 7 + Len(old_name), old_name, new_name)

\* _update_python_imports: the two substitutions, one after the other.
update_python_imports(content, old_name, new_name) ==
    SubImport(SubFromImport(content, 1, old_name, new_name), 1, old_name, new_name)

(***************************************************************************)
(* Archive rewriting                                                       *)
(*                                                                         *)
(* An archive is the sequence of its entries in zip order; an entry is a   *)
(* record [name, content].  The dict `files` of the code is a function     *)
(* from entry path to content.                                             *)
(***************************************************************************)

\* The path an entry gets (the if/elif chain on `name`).
NewFileName(name, old_n, new_n, version) ==
    LET old_dist_info == old_n \o "-" \o version \o ".dist-info"
        new_dist_info == new_n \o "-" \o version \o ".dist-info"
        old_data_dir == old_n \o "-" \o version \o ".data"
        new_data_dir == new_n \o "-" \o version \o ".data"
    IN  IF StartsWith(name, old_n \o "/") \/ name = old_n
        THEN new_n \o Drop(name, Len(old_n))
        ELSE IF StartsWith(name, old_dist_info \o "/") \/ name = old_dist_info
        THEN new_dist_info \o Drop(name, Len(old_dist_info))
        ELSE IF StartsWith(name, old_data_dir \o "/") \/ name = old_data_dir
        THEN new_data_dir \o Drop(name, Len(old_data_dir))
        ELSE name

\* The content with import rewriting applied to every entry that is not
\* the metadata entry, whatever its extension.
NewContent_everywhere(new_file_name, content, old_name, old_n, new_name, new_n, version, update_imports) ==
    IF new_file_name = new_n \o "-" \o version \o ".dist-info" \o "/METADATA"
    THEN update_metadata(content, old_name, new_name)
    ELSE IF update_imports
    THEN update_python_imports(content, old_n, new_n)
    ELSE content

\* The content an entry gets, given its new path.
NewContent(new_file_name, content, old_name, old_n, new_name, new_n, version, update_imports) ==
    IF new_file_name = new_n \o "-" \o version \o ".dist-info" \o "/METADATA"
    THEN update_metadata(content, old_name, new_name)
    ELSE IF update_imports /\ EndsWith(new_file_name, ".py")
    THEN update_python_imports(content, old_n, new_n)
    ELSE content

\* The loop over the entries: `files` after entries k..Len(entries) are
\* processed in order, starting from `files`.
RECURSIVE CollectFiles(_, _, _, _, _, _, _, _, _)
CollectFiles(entries, k, files, old_name, old_n, new_name, new_n, version, update_imports) ==
    IF k > Len(entries) THEN files
    ELSE LET name == entries[k].name
             new_file_name == NewFileName(name, old_n, new_n, version)
             new_content == NewContent(new_file_name, entries[k].content, old_name,
                                       old_n, new_name, new_n, version, update_imports)
             files2 == IF EndsWith(name, "/RECORD") THEN files
                       ELSE (new_file_name :> new_content) @@ files
         IN  CollectFiles(entries, k + 1, files2, old_name, old_n, new_name, new_n,
                          version, update_imports)

\* The text of the regenerated RECORD.
RecordContent(files, record_path) ==
    LET names == Sorted(DOMAIN files)
    IN  Join([i \in 1..(Len(names) + 1) |->
                IF i <= Len(names)
                THEN names[i] \o "," \o compute_record_hash(files[names[i]])
                     \o "," \o ToDec(Len(files[names[i]]))
                ELSE record_path \o ",,"], "\n")

\* zf.writestr over sorted(files.items()): the archive written.
WriteArchive(files) ==
    LET names == Sorted(DOMAIN files)
    IN  [i \in 1..Len(names) |-> [name |-> names[i], content |-> files[names[i]]]]

\* The empty dict.
NoFiles == [n \in {} |-> ""]

\* `files` with the regenerated RECORD added, written as an archive.
WithRecord(files, record_path) ==
    WriteArchive((record_path :> RecordContent(files, record_path)) @@ files)

\* The body shared by the two operations: the loop over the entries, then
\* the RECORD, then the archive.
Rewritten(entries, old_name, old_n, new_name, new_n, version, update_imports) ==
    WithRecord(CollectFiles(entries, 1, NoFiles, old_name, old_n, new_name, new_n,
                            version, update_imports),
               new_n \o "-" \o version \o ".dist-info" \o "/RECORD")

\* An exception.
Raise(type, msg) == [raises |-> type, msg |-> msg]

\* The no-op test with the new name taken as given, not normalised.
SameAsOld_raw(old_name_normalized, new_name) ==
    old_name_normalized = new_name

\* The no-op test: the new name, normalised, is the old normalised name.
SameAsOld(old_name_normalized, new_name) ==
    old_name_normalized = normalize_name(new_name)

\* rename_wheel(wheel_path, new_name, output_dir, update_imports=...), called
\* on a file named wheel_name holding `entries` (exists = FALSE: no such
\* file).  The result: the exception raised, or whether the output directory
\* was made, the name of the wheel written and its archive.
rename_wheel(exists, wheel_name, entries, new_name, update_imports) ==
    IF ~exists THEN Raise("FileNotFoundError", "Wheel not found")
    ELSE IF PathSuffix(wheel_name) # ".whl" THEN Raise("ValueError", "Not a wheel file")
    ELSE LET components == parse_wheel_filename(wheel_name)
         IN  IF components.raises = "ValueError"
             THEN Raise("ValueError", "Invalid wheel filename")
             ELSE IF components.raises # "" THEN Raise(components.raises, "")
             ELSE LET old_name == components.distribution
                      old_name_normalized == normalize_name(old_name)
                      new_name_normalized == normalize_name(new_name)
                  IN  IF SameAsOld(old_name_normalized, new_name)
                      THEN Raise("ValueError", "same as old name")
                      ELSE [raises |-> "", msg |-> "",
                            new_wheel_name |->
                                build_wheel_filename(
                                    [components EXCEPT
                                        !.distribution = new_name_normalized]),
                            archive |->
                                Rewritten(entries, old_name, old_name_normalized,
                                          new_name, new_name_normalized,
                                          components.version, update_imports)]

\* rename_wheel_from_bytes(wheel_bytes, new_name, update_imports=...): the
\* exception raised, or the archive returned.
rename_wheel_from_bytes(entries, new_name, update_imports) ==
    LET dist_info_dirs == SelectSeq(entries, LAMBDA e : Contains(e.name, ".dist-info/"))
    IN  IF Len(dist_info_dirs) = 0
        THEN Raise("ValueError", "Cannot find .dist-info directory in wheel")
        ELSE LET dist_info_name == Split(dist_info_dirs[1].name, "/")[1]
                 parts == RSplit1(RemoveAll(dist_info_name, ".dist-info"), "-")
                 old_name_normalized == parts[1]
                 version == IF Len(parts) > 1 THEN parts[2] ELSE "0.0.0"
                 new_name_normalized == normalize_name(new_name)
             IN  IF Len(RSplit1(dist_info_name, "-")) < 2
                 THEN Raise("IndexError", "")
                 ELSE IF SameAsOld(old_name_normalized, new_name)
                 THEN [raises |-> "", msg |-> "", archive |-> entries]
                 ELSE [raises |-> "", msg |-> "",
                       archive |->
                           Rewritten(entries, old_name_normalized, old_name_normalized,
                                     new_name, new_name_normalized, version,
                                     update_imports)]

(***************************************************************************)
(* Proxy server: configuration and rule lookup (server/config.py)          *)
(***************************************************************************)

\* s.lower(), s.replace(a, b) for one-character a and b, s.rstrip(c).
RECURSIVE Lower(_)
Lower(s) == IF Len(s) = 0 THEN "" ELSE LowerCh(Ch(s, 1)) \o Lower(Drop(s, 1))

RECURSIVE ReplaceCh(_, _, _)
ReplaceCh(s, a, b) ==
    IF Len(s) = 0 THEN ""
    ELSE (IF Ch(s, 1) = a THEN b ELSE Ch(s, 1)) \o ReplaceCh(Drop(s, 1), a, b)

RECURSIVE RStrip(_, _)
RStrip(s, c) ==
    IF Len(s) > 0 /\ Ch(s, Len(s)) = c THEN RStrip(SubSeq(s, 1, Len(s) - 1), c) ELSE s

\* The first position at which p occurs in s, 0 when it does not occur.
Find(s, p) ==
    IF Contains(s, p)
    THEN CHOOSE i \in 1..(Len(s) - Len(p) + 1) :
            /\ SubSeq(s, i, i + Len(p) - 1) = p
            /\ \A j \in 1..(i - 1) : SubSeq(s, j, j + Len(p) - 1) # p
    ELSE 0

\* s.replace(old, new, 1): the first occurrence of old replaced.
ReplaceAt(s, i, old, new) ==
    IF i = 0 THEN s ELSE SubSeq(s, 1, i - 1) \o new \o Drop(s, i + Len(old) - 1)
ReplaceFirst(s, old, new) == ReplaceAt(s, Find(s, old), old, new)

\* config._normalize_name: re.sub(r"[-_.]+", "-", name).lower()
RECURSIVE ConfigNormalizeFrom(_, _)
ConfigNormalizeFrom(name, i) ==
    IF i > Len(name) THEN ""
    ELSE IF Ch(name, i) \in {"-", "_", "."}
         THEN (IF i > 1 /\ Ch(name, i - 1) \in {"-", "_", "."} THEN "" ELSE "-")
              \o ConfigNormalizeFrom(name, i + 1)
         ELSE LowerCh(Ch(name, i)) \o ConfigNormalizeFrom(name, i + 1)

config_normalize_name(name) == ConfigNormalizeFrom(name, 1)

\* None, for a rule, and for an optional string (version_spec,
\* requires_python, hash, a URL not found).
NoRule == [original |-> "", new_name |-> "", version_spec |-> ""]
None == ""

\* get_rename_rule with the names compared as written.
get_rename_rule_raw(renames, new_name) ==
    IF \E i \in 1..Len(renames) : renames[i].new_name = new_name
    THEN renames[CHOOSE i \in 1..Len(renames) :
                    /\ renames[i].new_name = new_name
                    /\ \A j \in 1..(i - 1) : renames[j].new_name # new_name]
    ELSE NoRule

\* ProxyConfig.get_rename_rule: the first rule whose new name, normalised,
\* is the normalised name asked for; NoRule when there is none.
get_rename_rule(renames, new_name) ==
    IF \E i \in 1..Len(renames) :
          config_normalize_name(renames[i].new_name) = config_normalize_name(new_name)
    THEN renames[CHOOSE i \in 1..Len(renames) :
                    /\ config_normalize_name(renames[i].new_name)
                         = config_normalize_name(new_name)
                    /\ \A j \in 1..(i - 1) :
                          config_normalize_name(renames[j].new_name)
                            # config_normalize_name(new_name)]
    ELSE NoRule

(***************************************************************************)
(* Proxy server: upstream listings (server/upstream.py)                    *)
(***************************************************************************)

\* What pypi_simple derives from the filename of a link: the package type
\* ("wheel", "sdist", or None when the filename is not recognised) and, for
\* a wheel, the version segment.
package_type(filename) ==
    IF EndsWith(filename, ".whl")
    THEN LET parts == Split(SubSeq(filename, 1, Len(filename) - 4), "-")
         IN  IF /\ \A i \in 1..Len(parts) : Len(parts[i]) > 0
                /\ \/ Len(parts) = 5
                   \/ Len(parts) = 6 /\ IsDigit(Ch(parts[3], 1))
             THEN "wheel" ELSE None
    ELSE IF EndsWith(filename, ".tar.gz") \/ EndsWith(filename, ".zip")
    THEN "sdist" ELSE None

package_version(filename) ==
    IF package_type(filename) = "wheel" THEN Split(filename, "-")[2] ELSE None

\* int(s) for a string of digits.
IsDigits(s) == Len(s) > 0 /\ \A i \in 1..Len(s) : IsDigit(Ch(s, i))
RECURSIVE ToNat(_)
ToNat(s) ==
    IF Len(s) = 0 THEN 0
    ELSE ToNat(SubSeq(s, 1, Len(s) - 1)) * 10 + (Ord[Ch(s, Len(s))] - 48)

\* packaging.version.Version on the versions of the model: a release
\* N(.N)* followed by nothing or by a pre-release aN, bN, rcN.  ok = FALSE:
\* InvalidVersion is raised.
ReleaseLen(v) ==
    IF \E i \in 1..Len(v) : ~(IsDigit(Ch(v, i)) \/ Ch(v, i) = ".")
    THEN (CHOOSE i \in 1..Len(v) :
             /\ ~(IsDigit(Ch(v, i)) \/ Ch(v, i) = ".")
             /\ \A j \in 1..(i - 1) : IsDigit(Ch(v, j)) \/ Ch(v, j) = ".") - 1
    ELSE Len(v)

IsPreRelease(s) ==
    \E p \in {"a", "b", "rc"} : StartsWith(s, p) /\ IsDigits(Drop(s, Len(p)))

VersionOf(release, pre) ==
    IF /\ \A i \in 1..Len(release) : IsDigits(release[i])
       /\ pre = "" \/ IsPreRelease(pre)
    THEN [ok |-> TRUE, release |-> [i \in 1..Len(release) |-> ToNat(release[i])],
          pre |-> pre]
    ELSE [ok |-> FALSE, release |-> <<>>, pre |-> ""]

Version(v) == VersionOf(Split(SubSeq(v, 1, ReleaseLen(v)), "."), Drop(v, ReleaseLen(v)))

\* Release tuples compared with the shorter one padded with zeros.
RECURSIVE ReleaseLess(_, _)
ReleaseLess(a, b) ==
    IF Len(a) = 0 /\ Len(b) = 0 THEN FALSE
    ELSE IF Len(a) = 0 THEN ReleaseLess(<<0>>, b)
    ELSE IF Len(b) = 0 THEN ReleaseLess(a, <<0>>)
    ELSE IF a[1] # b[1] THEN a[1] < b[1]
    ELSE ReleaseLess(Tail(a), Tail(b))

\* Version(v) in SpecifierSet(spec, prereleases=True) for a constraint
\* "<V" with V a final release: the release of v is below that of V (a
\* pre-release of V itself is not below V).
InSpecifierSet(version, spec) ==
    /\ StartsWith(spec, "<")
    /\ ReleaseLess(version.release, Version(Drop(spec, 1)).release)

\* The version filter without the filter.
PackageKept_unfiltered(link, rename_rule) ==
    package_type(link.filename) = "wheel"

\* The loop body's tests: only wheels, and with a rule that has a version
\* constraint only versions that parse and satisfy it.
PackageKept(link, rename_rule) ==
    /\ package_type(link.filename) = "wheel"
    /\ rename_rule # NoRule /\ rename_rule.version_spec # None
          /\ package_version(link.filename) # None =>
             /\ Version(package_version(link.filename)).ok
             /\ InSpecifierSet(Version(package_version(link.filename)),
                               rename_rule.version_spec)

\* The hash of a package: the first of sha256, sha384, sha512, md5 among
\* the digests of the link, as "algo=value"; None without one.
HashAlgorithms == <<"sha256", "sha384", "sha512", "md5">>
PackageHash(digests) ==
    IF \E k \in 1..Len(HashAlgorithms) : HashAlgorithms[k] \in DOMAIN digests
    THEN LET k == CHOOSE i \in 1..Len(HashAlgorithms) :
                     /\ HashAlgorithms[i] \in DOMAIN digests
                     /\ \A j \in 1..(i - 1) : HashAlgorithms[j] \notin DOMAIN digests
         IN  HashAlgorithms[k] \o "=" \o digests[HashAlgorithms[k]]
    ELSE None

PackageInfo(link) ==
    [filename |-> link.filename, url |-> link.url,
     requires_python |-> link.requires_python, hash |-> PackageHash(link.digests)]

\* The packages built from the links of a page, in page order.
RECURSIVE PagePackages(_, _)
PagePackages(links, rename_rule) ==
    IF Len(links) = 0 THEN <<>>
    ELSE (IF PackageKept(links[1], rename_rule) THEN <<PackageInfo(links[1])>> ELSE <<>>)
         \o PagePackages(Tail(links), rename_rule)

\* The answers of an upstream: a status with the links of its page.  The
\* status TransportError stands for a request that raised httpx.TransportError.
TransportError == 0
NotFoundPage == [status |-> 404, links |-> <<>>]

\* The project the upstreams of the model serve; its name is matched as
\* PEP 503 indexes do, normalised.  Any other project is answered 404.
ServedProject == "my_pkg"
Serve(index, upstream_url, project) ==
    IF normalize_name(project) = ServedProject THEN index[upstream_url] ELSE NotFoundPage

\* get_project_page giving up at the first upstream that fails with anything
\* but 404, without going on to the next.
RECURSIVE GetProjectPageFrom_nofallthrough(_, _, _, _, _, _)
GetProjectPageFrom_nofallthrough(upstreams, index, project, rename_rule, i, queries) ==
    IF i > Len(upstreams) THEN [packages |-> <<>>, queries |-> queries]
    ELSE IF Serve(index, upstreams[i], project).status = 404
    THEN GetProjectPageFrom_nofallthrough(upstreams, index, project, rename_rule, i + 1,
            Append(queries, [kind |-> "list",
                             url |-> RStrip(upstreams[i], "/") \o "/" \o project \o "/"]))
    ELSE [packages |-> IF Serve(index, upstreams[i], project).status = 200
                       THEN PagePackages(Serve(index, upstreams[i], project).links,
                                         rename_rule)
                       ELSE <<>>,
          queries |-> Append(queries, [kind |-> "list",
                             url |-> RStrip(upstreams[i], "/") \o "/" \o project \o "/"])]

\* The loop of get_project_page from upstream i on, `queries` being the
\* requests sent so far: the packages returned and the requests sent.
RECURSIVE GetProjectPageFrom(_, _, _, _, _, _)
GetProjectPageFrom(upstreams, index, project, rename_rule, i, queries) ==
    IF i > Len(upstreams) THEN [packages |-> <<>>, queries |-> queries]
    ELSE IF \/ Serve(index, upstreams[i], project).status = TransportError
            \/ Serve(index, upstreams[i], project).status = 404
            \/ Serve(index, upstreams[i], project).status \notin 200..299
    THEN GetProjectPageFrom(upstreams, index, project, rename_rule, i + 1,
            Append(queries, [kind |-> "list",
                             url |-> RStrip(upstreams[i], "/") \o "/" \o project \o "/"]))
    ELSE [packages |-> PagePackages(Serve(index, upstreams[i], project).links, rename_rule),
          queries |-> Append(queries, [kind |-> "list",
                             url |-> RStrip(upstreams[i], "/") \o "/" \o project \o "/"])]

\* UpstreamClient.get_project_page(project, rename_rule)
get_project_page(upstreams, index, project, rename_rule) ==
    GetProjectPageFrom(upstreams, index, project, rename_rule, 1, <<>>)

\* UpstreamClient.find_package_url: the URL of the first package with the
\* filename, None without one.
find_package_url(packages, original_filename) ==
    IF \E i \in 1..Len(packages) : packages[i].filename = original_filename
    THEN packages[CHOOSE i \in 1..Len(packages) :
                     /\ packages[i].filename = original_filename
                     /\ \A j \in 1..(i - 1) : packages[j].filename # original_filename].url
    ELSE None

(***************************************************************************)
(* Proxy server: listing pages and filename mapping (html.py, stream.py)   *)
(***************************************************************************)

\* The anchor generate_project_index writes for a package: the href with
\* the hash as fragment, the data-requires-python attribute (None: absent)
\* and the text.
Anchor(filename, url, pkg) ==
    [href |-> IF pkg.hash # None /\ ~Contains(url, "#")
              THEN url \o "#" \o pkg.hash ELSE url,
     requires_python |-> pkg.requires_python,
     text |-> filename]

RenamedAnchor(filename, pkg) == Anchor(filename, filename, pkg)

\* generate_project_index(project, packages, rename_rule): the anchors of
\* the page, in order.
generate_project_index(packages, rename_rule) ==
    [k \in 1..Len(packages) |->
        IF rename_rule # NoRule
        THEN RenamedAnchor(ReplaceFirst(packages[k].filename,
                                        rename_rule.original \o "-",
                                        rename_rule.new_name \o "-"),
                           packages[k])
        ELSE Anchor(packages[k].filename, packages[k].url, packages[k])]

\* The name comparison of stream.py: lower-cased, "_" read as "-".
FoldName(name) == ReplaceCh(Lower(name), "_", "-")

\* original_filename_from_renamed
original_filename_from_renamed(renamed_filename, original_name, new_name) ==
    IF FoldName(Split(renamed_filename, "-")[1]) = FoldName(new_name)
    THEN Join(<<original_name>> \o Tail(Split(renamed_filename, "-")), "-")
    ELSE renamed_filename

(***************************************************************************)
(* Proxy server: the endpoints (server/app.py)                             *)
(***************************************************************************)

\* The proxy's answer to a request: the status, and with it the anchors of
\* a listing page, the Location of a redirect, or the bytes (an archive)
\* with their Content-Disposition.
NoResponse == [status |-> 0, detail |-> "", links |-> <<>>, location |-> "",
               content |-> <<>>, disposition |-> ""]

HTTPException(status_code, detail) ==
    [NoResponse EXCEPT !.status = status_code, !.detail = detail]

\* The wheel an upstream serves at a URL: the package root my_pkg/ and the
\* metadata directory named after the first two segments of the filename.
WheelBytes(url) ==
    LET parts == Split(Split(url, "/")[Len(Split(url, "/"))], "-")
    IN  << [name |-> "my_pkg/__init__.py",
            content |-> "from my_pkg import x\nimport my_pkg\n"],
           [name |-> parts[1] \o "-" \o parts[2] \o ".dist-info/METADATA",
            content |-> "Metadata-Version: 2.1\nName: " \o parts[1] \o "\nVersion: "
                        \o parts[2] \o "\n"] >>

\* The end of project_index: 404 without packages, the page otherwise.
ListingResponse(page, rename_rule, detail) ==
    [response |-> IF Len(page.packages) = 0
                  THEN HTTPException(404, detail)
                  ELSE [NoResponse EXCEPT
                           !.status = 200,
                           !.links = generate_project_index(page.packages, rename_rule)],
     queries |-> page.queries]

VirtualListing(upstreams, index, rename_rule) ==
    ListingResponse(get_project_page(upstreams, index, rename_rule.original, rename_rule),
                    rename_rule, "No packages found")

\* project_index(project): the response, and the requests sent upstream.
project_index(config, index, project) ==
    IF get_rename_rule(config.renames, project) # NoRule
    THEN VirtualListing(config.upstreams, index, get_rename_rule(config.renames, project))
    ELSE ListingResponse(get_project_page(config.upstreams, index, project, NoRule),
                         NoRule, "Project not found")

\* The response with the renamed bytes; an exception of the rename is not
\* caught and the server answers 500.
RenamedResponse(renamed, filename) ==
    IF renamed.raises # ""
    THEN HTTPException(500, renamed.raises)
    ELSE [NoResponse EXCEPT
             !.status = 200,
             !.content = renamed.archive,
             !.disposition = "attachment; filename=\"" \o filename \o "\""]

\* UpstreamClient.stream_wheel / download_wheel(url), the upstream answering
\* the GET with the status `fetch` (TransportError: the request raised
\* httpx.TransportError): the exception raised, or the bytes of the wheel.
stream_wheel(url, fetch) ==
    IF fetch = TransportError THEN Raise("httpx.TransportError", "")
    ELSE IF fetch \notin 200..299 THEN Raise("httpx.HTTPStatusError", "")
    ELSE [raises |-> "", msg |-> "", archive |-> WheelBytes(url)]

\* stream_and_rename_wheel with the status of the download left unchecked:
\* what the upstream sent is renamed and returned.
stream_and_rename_wheel_unchecked(upstream_url, new_name, fetch) ==
    rename_wheel_from_bytes(WheelBytes(upstream_url), new_name, TRUE)

\* stream_and_rename_wheel(client, upstream_url, new_name)
stream_and_rename_wheel(upstream_url, new_name, fetch) ==
    IF stream_wheel(upstream_url, fetch).raises # ""
    THEN stream_wheel(upstream_url, fetch)
    ELSE rename_wheel_from_bytes(stream_wheel(upstream_url, fetch).archive, new_name, TRUE)

VirtualDownloadAt(page, upstream_url, rename_rule, filename, fetch) ==
    IF upstream_url = None
    THEN [response |-> HTTPException(404, "Package not found"), queries |-> page.queries]
    ELSE [response |-> RenamedResponse(
                          stream_and_rename_wheel(upstream_url, rename_rule.new_name,
                                                  fetch),
                          filename),
          queries |-> Append(page.queries, [kind |-> "download", url |-> upstream_url,
                                            status |-> fetch])]

VirtualDownloadIn(page, rename_rule, filename, fetch) ==
    VirtualDownloadAt(page,
                      find_package_url(page.packages,
                          original_filename_from_renamed(filename, rename_rule.original,
                                                         rename_rule.new_name)),
                      rename_rule, filename, fetch)

\* The download looking the file up in the unfiltered page of the upstream.
VirtualDownload_norule(upstreams, index, rename_rule, filename, fetch) ==
    VirtualDownloadIn(get_project_page(upstreams, index, rename_rule.original, NoRule),
                      rename_rule, filename, fetch)

\* The virtual branch of download_wheel: the filename mapped back and
\* looked up in the page filtered by the rule, then the download and rename.
VirtualDownload(upstreams, index, rename_rule, filename, fetch) ==
    VirtualDownloadIn(get_project_page(upstreams, index, rename_rule.original, rename_rule),
                      rename_rule, filename, fetch)

PassthroughDownloadAt(page, upstream_url) ==
    [response |-> IF upstream_url = None
                  THEN HTTPException(404, "Package not found")
                  ELSE [NoResponse EXCEPT !.status = 302, !.location = upstream_url],
     queries |-> page.queries]

PassthroughDownload(page, filename) ==
    PassthroughDownloadAt(page, find_package_url(page.packages, filename))

\* download_wheel(project, filename): the response, and the requests sent
\* upstream; `fetch` is the upstream's answer to the download of the bytes,
\* if it comes to that.
download_wheel(config, index, project, filename, fetch) ==
    IF get_rename_rule(config.renames, project) # NoRule
    THEN VirtualDownload(config.upstreams, index,
                         get_rename_rule(config.renames, project), filename, fetch)
    ELSE PassthroughDownload(get_project_page(config.upstreams, index, project, NoRule),
                             filename)

\* The state of the proxy: its configuration, what the upstreams serve, the
\* request being answered, the requests sent upstream for it, the response.
VARIABLES
    config,     \* ProxyConfig: upstreams in priority order, rename rules
    index,      \* upstream URL -> the answer of that upstream to a listing request
    request,    \* the request received (op = "none": not yet)
    queries,    \* the requests sent upstream while answering, in order
    response    \* the response to the request

proxy_vars == <<config, index, request, queries, response>>

NoConfig == [upstreams |-> <<>>, renames |-> <<>>]
NoIndex == <<>>
NoRequest == [op |-> "none", project |-> "", filename |-> ""]

\* No proxy is running.
ProxyIdle ==
    /\ config = NoConfig
    /\ index = NoIndex
    /\ request = NoRequest
    /\ queries = <<>>
    /\ response = NoResponse

\* The life of one server: where its lifespan function stands, the upstream
\* client of the application, the transports created so far and the
\* requests being handled.
VARIABLES
    lifespan,         \* "created", "running" (at the yield), "closing", "stopped"
    upstream_client,  \* create_app's upstream_client: None or the UpstreamClient
    httpx_client,     \* UpstreamClient._client: NoTransport or a transport
    transports,       \* the httpx.AsyncClient objects created so far
    handlers          \* the request handlers: one request each

life_vars == <<lifespan, upstream_client, httpx_client, transports, handlers>>

\* The most requests one server receives.
MaxRequests == 2

NoTransport == 0

NoHandler == [kind |-> "", pc |-> "idle", began |-> "", ended |-> "", upstream |-> 0,
              uses |-> {}, status |-> 0, error |-> ""]

\* No server has been started.
LifeIdle ==
    /\ lifespan = "created"
    /\ upstream_client = None
    /\ httpx_client = NoTransport
    /\ transports = <<>>
    /\ handlers = [h \in 1..MaxRequests |-> NoHandler]

(***************************************************************************)
(* The state machine: one wheel on disk, then one rename operation         *)
(***************************************************************************)

VARIABLES
    disk,       \* the wheel files on disk: path -> archive
    dirs,       \* the directories that exist
    call,       \* the operation invoked and its arguments (op = "none": not yet)
    outcome     \* what the operation raised or returned

vars == <<disk, dirs, call, outcome>>

\* The most entries a source archive has.
MaxEntries == 2

\* Entries a source archive is made of.
Pool == {
    [name |-> "my_pkg/__init__.py",
     content |-> "from my_pkg import x\nimport my_pkg\n"],
    [name |-> "my_pkg/sub/core.py",
     content |-> "from my_pkg.util import y\nNAME = \"my_pkg\"\n# import my_pkg\nfrom other import my_pkg\n"],
    [name |-> "tests/test_it.py",
     content |-> "import my_pkg_extra\nfrom my_pkgs import z\nimport my_pkg.sub\n"],
    [name |-> "my_pkg-1.0.dist-info/METADATA",
     content |-> "Metadata-Version: 2.1\nName: my_pkg\nVersion: 1.0\nRequires-Dist: dep<2\n\nName: my_pkg rocks\n"],
    [name |-> "my_pkg-1.0.dist-info/METADATA",
     content |-> "Metadata-Version: 2.1\nName: my_pkg\nVersion: 1.0\n"],
    [name |-> "my_pkg-1.0.dist-info/RECORD",
     content |-> "my_pkg/__init__.py,sha256=0,0\n"],
    [name |-> "my_pkg-1.0.data/scripts/run",
     content |-> "#!python\nimport my_pkg\n"],
    [name |-> "my_pkg_extra/mod.so", content |-> "ELF"],
    [name |-> "my_pkg_v1/__init__.py", content |-> "VERSION = 1\n"],
    [name |-> "My_Pkg-1.0.dist-info/METADATA", content |-> "Name: My_Pkg\n"]
}

\* The source archives: up to MaxEntries entries with distinct paths, in any order.
Archives ==
    UNION {{a \in [1..n -> Pool] : \A i, j \in 1..n : i # j => a[i].name # a[j].name}
           : n \in 0..MaxEntries}

\* Names of the wheel file.  Those of the wheels that hold entries: plain,
\* with a build tag, a compound platform tag and an unnormalized
\* distribution, and with the distribution spelled as a metadata directory
\* of the pool.  Those of the empty wheels: a dev/local version, too few
\* segments, another extension, an empty third segment, and five segments
\* of which the third begins with a digit.
WheelNames == {"my_pkg-1.0-py3-none-any.whl",
               "My.Pkg-1.0-1-cp311-cp311-linux_x86_64.manylinux1.whl",
               "My_Pkg-1.0-py3-none-any.whl"}
EmptyWheelNames == {"my_pkg-1.2.dev4+gab-py3-none-any.whl",
                    "my_pkg-1.0.whl",
                    "my_pkg-1.0-py3-none-any.zip",
                    "my_pkg-1.0--py3-none-any.whl",
                    "my_pkg-1.0-1-none-any.whl"}

\* The new names asked for.
NewNames == {"my_pkg_v1", "My.-Pkg", "other"}

\* The directory of the source wheel, and the output directory asked for
\* (NoDir: output_dir=None).
WheelDir == "wheels"
NoDir == ""
OutputDirs == {NoDir, "out"}

\* The rename_deps keyword argument of the callers in tests/fixtures: not
\* given, or a mapping old dependency -> new dependency as a set of pairs.
NoDeps == {}
DepMaps == {NoDeps, {<<"dep", "dep_v1">>}}

NoCall == [op |-> "none", wheel_name |-> "", new_name |-> "", output_dir |-> NoDir,
           update_imports |-> FALSE, rename_deps |-> NoDeps]

NoOutcome == [raises |-> "", msg |-> "", path |-> "", archive |-> <<>>]

Init ==
    /\ \E wheel_name \in WheelNames \cup EmptyWheelNames, a \in Archives :
          /\ wheel_name \in EmptyWheelNames => Len(a) = 0
          /\ disk = (WheelDir \o "/" \o wheel_name :> a)
    /\ dirs = {WheelDir}
    /\ call = NoCall
    /\ outcome = NoOutcome
    /\ ProxyIdle
    /\ LifeIdle

\* rename_wheel(WheelDir/wheel_name, new_name, output_dir=...,
\* update_imports=..., [rename_deps=...]).  The function has no rename_deps
\* parameter, so a call that passes one raises TypeError before the body runs.
RenameWheel(wheel_name, new_name, output_dir, update_imports, rename_deps) ==
    LET wheel_path == WheelDir \o "/" \o wheel_name
        exists == wheel_path \in DOMAIN disk
        dir == IF output_dir = NoDir THEN WheelDir ELSE output_dir
    IN  /\ call.op = "none"
        /\ call' = [op |-> "rename_wheel", wheel_name |-> wheel_name,
                    new_name |-> new_name, output_dir |-> output_dir,
                    update_imports |-> update_imports, rename_deps |-> rename_deps]
        /\ IF rename_deps # NoDeps
           THEN /\ outcome' = [NoOutcome EXCEPT !.raises = "TypeError",
                                                !.msg = "unexpected keyword argument"]
                /\ UNCHANGED <<disk, dirs>>
           ELSE \E r \in {rename_wheel(exists, wheel_name,
                                       IF exists THEN disk[wheel_path] ELSE <<>>,
                                       new_name, update_imports)} :
                IF r.raises # ""
                THEN /\ outcome' = [NoOutcome EXCEPT !.raises = r.raises, !.msg = r.msg]
                     /\ UNCHANGED <<disk, dirs>>
                ELSE /\ dirs' = dirs \cup {dir}
                     /\ disk' = (dir \o "/" \o r.new_wheel_name :> r.archive) @@ disk
                     /\ outcome' = [NoOutcome EXCEPT
                                        !.path = dir \o "/" \o r.new_wheel_name,
                                        !.archive = r.archive]

\* rename_wheel_from_bytes(wheel_bytes, new_name, update_imports=...) on the
\* bytes of the wheel at wheel_path.
RenameWheelFromBytes(wheel_path, new_name, update_imports) ==
    /\ call.op = "none"
    /\ call' = [NoCall EXCEPT !.op = "rename_wheel_from_bytes",
                              !.wheel_name = Drop(wheel_path, Len(WheelDir) + 1),
                              !.new_name = new_name,
                              !.update_imports = update_imports]
    /\ \E r \in {rename_wheel_from_bytes(disk[wheel_path], new_name, update_imports)} :
          outcome' = IF r.raises # ""
                     THEN [NoOutcome EXCEPT !.raises = r.raises, !.msg = r.msg]
                     ELSE [NoOutcome EXCEPT !.archive = r.archive]
    /\ UNCHANGED <<disk, dirs>>

Next ==
    \/ \E wheel_name \in {Drop(p, Len(WheelDir) + 1) : p \in DOMAIN disk} \cup {"missing.whl"},
          new_name \in NewNames, output_dir \in OutputDirs, update_imports \in BOOLEAN,
          rename_deps \in DepMaps :
          /\ wheel_name = "missing.whl" \/ rename_deps # NoDeps
                => output_dir = NoDir /\ update_imports /\ new_name = "my_pkg_v1"
          /\ RenameWheel(wheel_name, new_name, output_dir, update_imports, rename_deps)
          /\ UNCHANGED <<proxy_vars, life_vars>>
    \/ \E wheel_path \in DOMAIN disk, new_name \in NewNames, update_imports \in BOOLEAN :
          /\ RenameWheelFromBytes(wheel_path, new_name, update_imports)
          /\ UNCHANGED <<proxy_vars, life_vars>>

Spec == Init /\ [][Next]_<<vars, proxy_vars, life_vars>>

(***************************************************************************)
(* The state machine of the proxy: a configured proxy in front of two      *)
(* upstream indexes, then one request                                      *)
(***************************************************************************)

\* The most links an upstream page has.
MaxLinks == 2

\* The base URLs of the upstream indexes.
PrimaryUrl == "https://a.example/simple/"
SecondaryUrl == "https://b.example/simple"

\* The files upstreams list for the served project: wheels of versions
\* below and above 2, a source distribution, a wheel whose version does not
\* parse, and a pre-release wheel with a build tag under the distribution's
\* unnormalised spelling.
FilePool == <<
    [filename |-> "my_pkg-1.0-py3-none-any.whl", requires_python |-> ">=3.8",
     digests |-> ("sha256" :> "aa11" @@ "md5" :> "bb22")],
    [filename |-> "my_pkg-2.0-py3-none-any.whl", requires_python |-> None,
     digests |-> <<>>],
    [filename |-> "my_pkg-1.0.tar.gz", requires_python |-> ">=3.8",
     digests |-> ("md5" :> "cc33")],
    [filename |-> "my_pkg-1.0.junk-py3-none-any.whl", requires_python |-> None,
     digests |-> ("sha256" :> "dd44")],
    [filename |-> "My_Pkg-1.5rc1-1-cp311-cp311-linux_x86_64.manylinux1.whl",
     requires_python |-> None, digests |-> ("sha512" :> "ee55")] >>

\* The link of a file on the page of an upstream: its URL is absolute.
Link(upstream_url, file) ==
    [filename |-> file.filename,
     url |-> RStrip(upstream_url, "/") \o "/" \o ServedProject \o "/" \o file.filename,
     requires_python |-> file.requires_python,
     digests |-> file.digests]

\* The k-th smallest element of a set of numbers.
Nth(S, k) == CHOOSE x \in S : Cardinality({y \in S : y < x}) = k - 1

\* The pages of an upstream: up to MaxLinks files of the pool, in pool order.
Pages(upstream_url) ==
    {[k \in 1..Cardinality(S) |-> Link(upstream_url, FilePool[Nth(S, k)])] :
        S \in {T \in SUBSET (1..Len(FilePool)) : Cardinality(T) <= MaxLinks}}

\* The answers of the primary upstream: any page, 404, a server error, a
\* transport error.  Those of the secondary upstream: 404, a server error,
\* or one of two pages.
PrimaryAnswers ==
    {[status |-> 200, links |-> p] : p \in Pages(PrimaryUrl)}
    \cup {NotFoundPage, [status |-> 500, links |-> <<>>],
          [status |-> TransportError, links |-> <<>>]}

SecondaryAnswers ==
    {NotFoundPage, [status |-> 500, links |-> <<>>],
     [status |-> 200, links |-> <<Link(SecondaryUrl, FilePool[1])>>],
     [status |-> 200, links |-> <<Link(SecondaryUrl, FilePool[2])>>]}

\* The lists of rename rules: one rule with a version constraint; a rule
\* whose original is written with a dash, before a second rule of another
\* new name; one rule whose new name is written with dashes.
RuleLists == {
    << [original |-> "my_pkg", new_name |-> "my_pkg_v1", version_spec |-> "<2"] >>,
    << [original |-> "my-pkg", new_name |-> "my_pkg_v1", version_spec |-> None],
       [original |-> "my_pkg", new_name |-> "My_Pkg.Old", version_spec |-> "<2"] >>,
    << [original |-> "my_pkg", new_name |-> "my-pkg-v1", version_spec |-> None] >> }

UpstreamOrders == {<<PrimaryUrl, SecondaryUrl>>, <<SecondaryUrl, PrimaryUrl>>}

\* The answers of an upstream to the download of a wheel's bytes.
FetchAnswers == {200, 503, TransportError}

\* The project names asked for: virtual names as configured and in other
\* spellings, the real project, and a project no upstream has.
ProjectNames == {"my_pkg_v1", "My-Pkg.V1", "my.pkg.old", "my_pkg", "nothing"}

\* The filename of a download request: one a listing of the project
\* advertises, one an upstream lists, the name an upstream file would have
\* under the virtual project, or one nobody has.
AbsentFilename == "absent-1.0-py3-none-any.whl"

\* The link texts of a listing: the filenames a client sees.
LinkTexts(links) == {links[k].text : k \in 1..Len(links)}

UpstreamFilenames ==
    UNION {{index[u].links[k].filename : k \in 1..Len(index[u].links)} : u \in DOMAIN index}

\* The name a client expects an upstream file to have under a virtual project.
ExpectedName(filename, rename_rule) ==
    IF rename_rule = NoRule THEN filename
    ELSE ReplaceFirst(filename, rename_rule.original \o "-", rename_rule.new_name \o "-")

Filenames(project) ==
    LinkTexts(project_index(config, index, project).response.links)
    \cup UpstreamFilenames
    \cup {ExpectedName(f, get_rename_rule(config.renames, project)) : f \in UpstreamFilenames}
    \cup {AbsentFilename}

ProxyInit ==
    /\ \E upstreams \in UpstreamOrders, renames \in RuleLists :
          config = [upstreams |-> upstreams, renames |-> renames]
    /\ \E primary \in PrimaryAnswers, secondary \in SecondaryAnswers :
          index = (PrimaryUrl :> primary @@ SecondaryUrl :> secondary)
    /\ request = NoRequest
    /\ queries = <<>>
    /\ response = NoResponse
    /\ disk = <<>>
    /\ dirs = {}
    /\ call = NoCall
    /\ outcome = NoOutcome
    /\ LifeIdle

\* GET /simple/{project}/
ProjectIndex(project) ==
    /\ request' = [op |-> "project_index", project |-> project, filename |-> ""]
    /\ \E r \in {project_index(config, index, project)} :
          /\ response' = r.response
          /\ queries' = r.queries
    /\ UNCHANGED <<config, index>>
    /\ UNCHANGED <<vars, life_vars>>

\* GET /simple/{project}/{filename}
DownloadWheel(project, filename, fetch) ==
    /\ request' = [op |-> "download_wheel", project |-> project, filename |-> filename]
    /\ \E r \in {download_wheel(config, index, project, filename, fetch)} :
          /\ response' = r.response
          /\ queries' = r.queries
    /\ UNCHANGED <<config, index>>
    /\ UNCHANGED <<vars, life_vars>>

\* One request to a proxy that has answered none.
ProxyNext ==
    \/ /\ request.op = "none"
       /\ \E project \in ProjectNames : ProjectIndex(project)
    \/ /\ request.op = "none"
       /\ \E project \in ProjectNames :
             \E filename \in Filenames(project), fetch \in FetchAnswers :
                DownloadWheel(project, filename, fetch)

ProxySpec == ProxyInit /\ [][ProxyNext]_<<vars, proxy_vars, life_vars>>

(***************************************************************************)
(* The proxy answering one request after another: a configuration with a   *)
(* version constraint, any sequence of listing and download requests       *)
(***************************************************************************)

\* The first rule has a version constraint; the primary upstream comes
\* first and the secondary does not have the project.
SessionInit ==
    /\ ProxyInit
    /\ config.upstreams = <<PrimaryUrl, SecondaryUrl>>
    /\ config.renames[1].version_spec # None
    /\ index[SecondaryUrl] = NotFoundPage

SessionNext ==
    \/ \E project \in ProjectNames : ProjectIndex(project)
    \/ \E project \in ProjectNames :
          \E filename \in Filenames(project), fetch \in FetchAnswers :
             DownloadWheel(project, filename, fetch)

SessionSpec == SessionInit /\ [][SessionNext]_<<vars, proxy_vars, life_vars>>

(***************************************************************************)
(* The life of a server: startup, requests handled concurrently, shutdown  *)
(***************************************************************************)

\* The routes: simple_index makes no upstream request, the other two do.
Routes == {"simple_index", "project_index", "download_wheel"}

\* The answers of an upstream to a listing request, as the handler sees
\* them: a page, a 404, or an httpx.HTTPError.
PageAnswers == {"page", "404", "HTTPError"}

\* A request through UpstreamClient.client: the property raises when _client
\* is None, and httpx refuses to send on a client that has been closed.
UseClient_unchecked(c, ts) ==
    [raises |-> "", msg |-> ""]

UseClient(c, ts) ==
    IF c = NoTransport
    THEN Raise("RuntimeError", "Client not initialized. Use 'async with' context manager.")
    ELSE IF ts[c].state = "closed"
         THEN Raise("RuntimeError", "Cannot send a request, as the client has been closed.")
         ELSE [raises |-> "", msg |-> ""]

\* The handler has answered.
Answered(hd, status, error) ==
    [hd EXCEPT !.pc = "done", !.ended = lifespan, !.status = status, !.error = error]

\* get_project_page at the k-th upstream: past the last one it returns no
\* packages and the handler answers 404; otherwise the listing is requested
\* through the client, and an exception of the client leaves the handler.
AskUpstream(hd, k) ==
    IF k > Len(config.upstreams)
    THEN Answered(hd, 404, "")
    ELSE IF UseClient(httpx_client, transports).raises # ""
         THEN Answered(hd, 500, UseClient(httpx_client, transports).raises)
         ELSE [hd EXCEPT !.pc = "page", !.upstream = k,
                         !.uses = @ \cup {[phase |-> lifespan, transport |-> httpx_client]}]

\* stream_wheel: the bytes are requested through the client.
AskWheel(hd) ==
    IF UseClient(httpx_client, transports).raises # ""
    THEN Answered(hd, 500, UseClient(httpx_client, transports).raises)
    ELSE [hd EXCEPT !.pc = "wheel",
                    !.uses = @ \cup {[phase |-> lifespan, transport |-> httpx_client]}]

\* get_client() of a handler.
get_client(uc) ==
    IF uc = None THEN Raise("RuntimeError", "Upstream client not initialized")
    ELSE [raises |-> "", msg |-> ""]

\* What a handler does with the packages of a page: it answers (a listing,
\* a redirect, a 404), or a download under a rule fetches the bytes.
PageOutcomes(kind) ==
    IF kind = "download_wheel" THEN {200, 302, 404} ELSE {200, 404}

\* lifespan up to its yield: the UpstreamClient is made and entered, which
\* creates the transport.
Startup ==
    /\ lifespan = "created"
    /\ upstream_client' = "UpstreamClient"
    /\ transports' = Append(transports, [state |-> "open", created_by |-> "lifespan",
                                         closes |-> 0, closed_by |-> ""])
    /\ httpx_client' = Len(transports) + 1
    /\ lifespan' = "running"
    /\ UNCHANGED handlers

\* __aexit__ up to the end of aclose(): the transport is closed; _client
\* still refers to it.
ShutdownClose ==
    /\ lifespan = "running"
    /\ IF httpx_client # NoTransport
       THEN transports' = [transports EXCEPT ![httpx_client] =
                              [@ EXCEPT !.state = "closed", !.closes = @ + 1,
                                        !.closed_by = "lifespan"]]
       ELSE UNCHANGED transports
    /\ lifespan' = "closing"
    /\ UNCHANGED <<upstream_client, httpx_client, handlers>>

\* __aexit__ after aclose(): _client = None, and lifespan returns.
ShutdownReset ==
    /\ lifespan = "closing"
    /\ httpx_client' = NoTransport
    /\ lifespan' = "stopped"
    /\ UNCHANGED <<upstream_client, transports, handlers>>

\* A request arrives and its handler runs to its first await.
Receive(h, kind) ==
    /\ handlers[h].pc = "idle"
    /\ handlers' = [handlers EXCEPT ![h] =
          IF kind = "simple_index"
          THEN Answered([@ EXCEPT !.kind = kind, !.began = lifespan], 200, "")
          ELSE IF get_client(upstream_client).raises # ""
               THEN Answered([@ EXCEPT !.kind = kind, !.began = lifespan], 500,
                             get_client(upstream_client).raises)
               ELSE AskUpstream([@ EXCEPT !.kind = kind, !.began = lifespan], 1)]
    /\ UNCHANGED <<lifespan, upstream_client, httpx_client, transports>>

\* The upstream answers the listing request of a handler, which runs to its
\* next await or to its answer.
PageReply(h, answer, outcome_) ==
    /\ handlers[h].pc = "page"
    /\ handlers' = [handlers EXCEPT ![h] =
          IF answer # "page"
          THEN AskUpstream(@, @.upstream + 1)
          ELSE IF @.kind = "download_wheel" /\ outcome_ = 200
               THEN AskWheel(@)
               ELSE Answered(@, outcome_, "")]
    /\ UNCHANGED <<lifespan, upstream_client, httpx_client, transports>>

\* The upstream answers the download of a handler.
WheelReply(h, fetch) ==
    /\ handlers[h].pc = "wheel"
    /\ handlers' = [handlers EXCEPT ![h] =
          IF fetch = 200 THEN Answered(@, 200, "")
          ELSE Answered(@, 500, stream_wheel("", fetch).raises)]
    /\ UNCHANGED <<lifespan, upstream_client, httpx_client, transports>>

\* A server with zero, one or two upstreams.
LifeInit ==
    /\ \E upstreams \in {<<>>, <<PrimaryUrl>>, <<PrimaryUrl, SecondaryUrl>>} :
          config = [upstreams |-> upstreams, renames |-> <<>>]
    /\ index = NoIndex
    /\ request = NoRequest
    /\ queries = <<>>
    /\ response = NoResponse
    /\ disk = <<>>
    /\ dirs = {}
    /\ call = NoCall
    /\ outcome = NoOutcome
    /\ LifeIdle

LifeNext ==
    \/ Startup /\ UNCHANGED <<vars, proxy_vars>>
    \/ ShutdownClose /\ UNCHANGED <<vars, proxy_vars>>
    \/ ShutdownReset /\ UNCHANGED <<vars, proxy_vars>>
    \/ \E h \in 1..MaxRequests, kind \in Routes :
          Receive(h, kind) /\ UNCHANGED <<vars, proxy_vars>>
    \/ \E h \in 1..MaxRequests, answer \in PageAnswers :
          \E outcome_ \in PageOutcomes(handlers[h].kind) :
             PageReply(h, answer, outcome_) /\ UNCHANGED <<vars, proxy_vars>>
    \/ \E h \in 1..MaxRequests, fetch \in FetchAnswers :
          WheelReply(h, fetch) /\ UNCHANGED <<vars, proxy_vars>>

LifeSpec == LifeInit /\ [][LifeNext]_<<vars, proxy_vars, life_vars>>


(***************************************************************************)
(* What the claims speak of                                                *)
(***************************************************************************)

\* The paths of an archive, and the content of the entry at a path.
Names(a) == {a[i].name : i \in 1..Len(a)}
ContentOf(a, n) == a[CHOOSE i \in 1..Len(a) : a[i].name = n].content

\* The operation returned (rather than raised); the archive it produced.
Returned == call.op # "none" /\ outcome.raises = ""
Output == outcome.archive

\* The source archive of the call.
SourcePath == WheelDir \o "/" \o call.wheel_name
SourceExists == call.op # "none" /\ SourcePath \in DOMAIN disk
Source == disk[SourcePath]

\* The top-level metadata directories of an archive ("x-1.0.dist-info").
MetadataDirs(a) ==
    {d \in {Split(n, "/")[1] : n \in {m \in Names(a) : Contains(m, "/")}} :
        EndsWith(d, ".dist-info")}

\* The old distribution name and version the call is about: those of the
\* wheel's filename for rename_wheel, those of the archive's metadata
\* directory for rename_wheel_from_bytes.
OldKnown ==
    /\ SourceExists
    /\ IF call.op = "rename_wheel"
       THEN /\ PathSuffix(call.wheel_name) = ".whl"
            /\ Len(Split(PathStem(call.wheel_name), "-")) \in {5, 6}
            /\ parse_wheel_filename(call.wheel_name).raises = ""
       ELSE Cardinality(MetadataDirs(Source)) = 1

OldDistVersion ==
    IF call.op = "rename_wheel"
    THEN SubSeq(Split(PathStem(call.wheel_name), "-"), 1, 2)
    ELSE LET d == CHOOSE x \in MetadataDirs(Source) : TRUE
         IN  RSplit1(SubSeq(d, 1, Len(d) - Len(".dist-info")), "-")

OldName == normalize_name(OldDistVersion[1])
OldVersion == OldDistVersion[2]
NewName == normalize_name(call.new_name)

\* The operation renamed an archive: it returned, and the old and the new
\* name differ after normalisation.
Renamed == Returned /\ OldKnown /\ OldName # NewName

\* A path lies under a reserved prefix: it is the prefix or begins with "prefix/".
Under(n, p) == n = p \/ StartsWith(n, p \o "/")

\* The reserved prefixes of a name and version: package root, metadata
\* directory, data directory.
DistInfoDir(name, version) == name \o "-" \o version \o ".dist-info"
DataDir(name, version) == name \o "-" \o version \o ".data"
ReservedPrefixes(name, version) ==
    {name, DistInfoDir(name, version), DataDir(name, version)}

\* The manifest entries of an archive, and the fields of a manifest line.
ManifestPaths(a) == {n \in Names(a) : EndsWith(n, ".dist-info/RECORD")}
ManifestLines(a) == Split(ContentOf(a, CHOOSE m \in ManifestPaths(a) : TRUE), "\n")
LinePath(line) == Split(line, ",")[1]

(***************************************************************************)
(* C1                                                                      *)
(***************************************************************************)

\* The archive has one manifest; every other entry has exactly one manifest
\* line, which carries the digest and the length of the entry's bytes; and
\* every manifest line names an entry.
ManifestComplete(a) ==
    /\ Cardinality(ManifestPaths(a)) = 1
    /\ LET m == CHOOSE x \in ManifestPaths(a) : TRUE
           lines == ManifestLines(a)
       IN  /\ \A n \in Names(a) \ {m} :
                /\ Cardinality({i \in 1..Len(lines) : LinePath(lines[i]) = n}) = 1
                /\ \E i \in 1..Len(lines) :
                      lines[i] = n \o "," \o compute_record_hash(ContentOf(a, n))
                                   \o "," \o ToDec(Len(ContentOf(a, n)))
           /\ \A i \in 1..Len(lines) : LinePath(lines[i]) \in Names(a)

\* C1: after rename_wheel or rename_wheel_from_bytes of any archive, every
\* output entry but the manifest has exactly one RECORD line, with the
\* sha256 digest and the byte length of its final bytes, and no RECORD line
\* names a path that is not an output entry.
C1_ManifestCompleteness == Returned => ManifestComplete(Output)

(***************************************************************************)
(* C2                                                                      *)
(***************************************************************************)

\* C2: after a rename with different normalised old and new names, no output
\* path begins with the old package root, the old metadata directory or the
\* old data directory, and the manifest names no such path.
C2_NoLeftoverOldPaths ==
    Renamed =>
        /\ \A n \in Names(Output), p \in ReservedPrefixes(OldName, OldVersion) :
              ~Under(n, p)
        /\ \A i \in 1..Len(ManifestLines(Output)),
              p \in ReservedPrefixes(OldName, OldVersion) :
              ~Under(LinePath(ManifestLines(Output)[i]), p)

(***************************************************************************)
(* C3                                                                      *)
(***************************************************************************)

\* text[i..] begins with f.
At(text, i, f) == i + Len(f) - 1 <= Len(text) /\ SubSeq(text, i, i + Len(f) - 1) = f

\* The text holds one of the statement forms "from <name> import",
\* "from <name>.<rest>", "import <name>", the name as a whole word.
HasReferenceTo(text, name) ==
    \E i \in 1..Len(text) :
        /\ ~WordAt(text, i - 1)
        /\ \/ At(text, i, "from " \o name \o " import")
           \/ At(text, i, "from " \o name \o ".")
           \/ /\ At(text, i, "import " \o name)
              /\ ~WordAt(text, i + Len("import " \o name))

\* C3: with import rewriting on, no .py entry of the output still holds one
\* of the three statement forms naming the old normalised name, and an entry
\* that held one holds the form with the new normalised name.
C3_ReferencesRewritten ==
    Renamed /\ call.update_imports =>
        /\ \A n \in Names(Output) :
              EndsWith(n, ".py") => ~HasReferenceTo(ContentOf(Output, n), OldName)
        /\ \A n \in Names(Source) :
              EndsWith(n, ".py") /\ HasReferenceTo(ContentOf(Source, n), OldName) =>
                  \E m \in Names(Output) :
                      EndsWith(m, ".py") /\ HasReferenceTo(ContentOf(Output, m), NewName)

(***************************************************************************)
(* C4                                                                      *)
(***************************************************************************)

\* The line without its indentation.
RECURSIVE Dedent(_)
Dedent(line) ==
    IF Len(line) > 0 /\ Ch(line, 1) \in {" ", "\t"} THEN Dedent(Drop(line, 1)) ELSE line

\* The line is an import statement of the package: "from <name> ..." /
\* "from <name>.<rest> ..." or "import <name> ...".
IsReferenceStatement(line, name) ==
    LET stmt == Dedent(line)
    IN  \/ /\ At(stmt, 1, "from " \o name)
           /\ Len(stmt) > Len("from " \o name)
           /\ Ch(stmt, Len("from " \o name) + 1) \in {" ", "\t", "."}
        \/ /\ At(stmt, 1, "import " \o name)
           /\ ~WordAt(stmt, Len("import " \o name) + 1)

\* The path a source entry has in the output of a rename.
RenamedPath(n) ==
    IF Under(n, OldName) THEN NewName \o Drop(n, Len(OldName))
    ELSE IF Under(n, DistInfoDir(OldName, OldVersion))
    THEN DistInfoDir(NewName, OldVersion) \o Drop(n, Len(DistInfoDir(OldName, OldVersion)))
    ELSE IF Under(n, DataDir(OldName, OldVersion))
    THEN DataDir(NewName, OldVersion) \o Drop(n, Len(DataDir(OldName, OldVersion)))
    ELSE n

\* C4: a line of a .py entry that is not an import statement of the old
\* package (a comment, a line with a string literal, an import of the name
\* as a member of another module) is the same in the output.
C4_NonReferencesPreserved ==
    Renamed =>
        \A n \in Names(Source) :
            EndsWith(n, ".py") /\ RenamedPath(n) \in Names(Output) =>
                LET before == Split(ContentOf(Source, n), "\n")
                    after == Split(ContentOf(Output, RenamedPath(n)), "\n")
                IN  /\ Len(after) = Len(before)
                    /\ \A i \in 1..Len(before) :
                          ~IsReferenceStatement(before[i], OldName) => after[i] = before[i]

(***************************************************************************)
(* C5                                                                      *)
(***************************************************************************)

\* The declared-name line of a metadata text: its first "Name:" line.
DeclaredNameLine(lines) ==
    CHOOSE k \in 1..Len(lines) :
        /\ StartsWith(lines[k], "Name:")
        /\ \A j \in 1..(k - 1) : ~StartsWith(lines[j], "Name:")

\* C5: after a rename, the METADATA entry of the new metadata directory
\* declares the new name, and its declared-name line is the only line that
\* differs from the source's METADATA.
C5_MetadataNameOnly ==
    Renamed /\ DistInfoDir(OldName, OldVersion) \o "/METADATA" \in Names(Source) =>
        /\ DistInfoDir(NewName, OldVersion) \o "/METADATA" \in Names(Output)
        /\ LET before == Split(ContentOf(Source,
                                   DistInfoDir(OldName, OldVersion) \o "/METADATA"), "\n")
               after == Split(ContentOf(Output,
                                  DistInfoDir(NewName, OldVersion) \o "/METADATA"), "\n")
               k == DeclaredNameLine(before)
           IN  /\ Len(after) = Len(before)
               /\ after[k] = "Name: " \o call.new_name
               /\ \A i \in 1..Len(before) : i # k => after[i] = before[i]

(***************************************************************************)
(* C6                                                                      *)
(***************************************************************************)

\* C6: rename_wheel to a new name whose normalised form is the normalised
\* old distribution name raises the invalid-input error, and no output
\* archive and no output directory have been created.
C6_NoOpRejected ==
    call.op = "rename_wheel" /\ call.rename_deps = NoDeps /\ OldKnown
        /\ OldName = NewName =>
            /\ outcome.raises = "ValueError"
            /\ outcome.msg = "same as old name"
            /\ dirs = {WheelDir}
            /\ DOMAIN disk = {SourcePath}

\* A no-op rename_wheel was rejected: the names differ as written and are
\* equal when normalised, and an output directory was asked for.
C6_Witness ==
    /\ call.op = "rename_wheel" /\ call.rename_deps = NoDeps /\ OldKnown
    /\ OldName = NewName
    /\ OldDistVersion[1] # call.new_name
    /\ call.new_name # NewName
    /\ call.output_dir = "out"
    /\ outcome.raises = "ValueError"

(***************************************************************************)
(* C7                                                                      *)
(***************************************************************************)

\* C7: rename_wheel_from_bytes has the contract of rename_wheel: on the
\* archive of a well-named wheel it raises exactly when rename_wheel does,
\* and a new name whose normalised form is the archive's normalised old
\* name is rejected with the no-op error rather than answered with bytes.
C7_InMemorySameContract ==
    call.op = "rename_wheel_from_bytes" /\ OldKnown =>
        /\ OldName = NewName =>
              outcome.raises = "ValueError" /\ outcome.msg = "same as old name"
        /\ call.wheel_name \in WheelNames =>
              ((outcome.raises = "") <=>
               (rename_wheel(TRUE, call.wheel_name, Source, call.new_name,
                             call.update_imports).raises = ""))

(***************************************************************************)
(* C8                                                                      *)
(***************************************************************************)

\* No entry of the source lies under the metadata directory of the old
\* normalised name and version (rename_wheel); the archive has no metadata
\* directory to take them from (rename_wheel_from_bytes).
MetadataDirMissing ==
    IF call.op = "rename_wheel"
    THEN /\ OldKnown
         /\ OldName # NewName
         /\ \A n \in Names(Source) :
               ~StartsWith(n, DistInfoDir(OldName, OldVersion) \o "/")
    ELSE SourceExists /\ MetadataDirs(Source) = {}

\* C8: when the source archive has no entry under the metadata directory,
\* the operation fails with the missing-metadata-directory error and
\* produces no output archive.
C8_MissingMetadataDirRejected ==
    call.op # "none" /\ call.rename_deps = NoDeps /\ MetadataDirMissing =>
        /\ outcome.raises = "ValueError"
        /\ outcome.msg = "Cannot find .dist-info directory in wheel"
        /\ outcome.archive = <<>>
        /\ DOMAIN disk = {SourcePath}

(***************************************************************************)
(* C9                                                                      *)
(***************************************************************************)

\* The characters of a requirement's name.
IsNameCh(c) == IsWord(c) \/ c \in {"-", "."}

\* The name a "Requires-Dist: <name><rest>" line refers to, and the rest.
DepNameLen(line) ==
    LET req == Drop(line, Len("Requires-Dist: "))
    IN  IF \E i \in 1..Len(req) : ~IsNameCh(Ch(req, i))
        THEN (CHOOSE i \in 1..Len(req) :
                 ~IsNameCh(Ch(req, i)) /\ \A j \in 1..(i - 1) : IsNameCh(Ch(req, j))) - 1
        ELSE Len(req)
DepName(line) == SubSeq(Drop(line, Len("Requires-Dist: ")), 1, DepNameLen(line))
DepRest(line) == Drop(line, Len("Requires-Dist: ") + DepNameLen(line))

\* C9: rename_wheel takes a mapping old dependency -> new dependency; every
\* Requires-Dist line of METADATA whose name matches a key, normalised, then
\* names the mapped dependency with the rest of the line unchanged, and the
\* Requires-Dist lines that match no key are unchanged.
C9_DependencyRenames ==
    call.op = "rename_wheel" /\ call.rename_deps # NoDeps /\ OldKnown
        /\ OldName # NewName
        /\ DistInfoDir(OldName, OldVersion) \o "/METADATA" \in Names(Source) =>
            /\ Returned
            /\ DistInfoDir(NewName, OldVersion) \o "/METADATA" \in Names(Output)
            /\ LET before == Split(ContentOf(Source,
                                DistInfoDir(OldName, OldVersion) \o "/METADATA"), "\n")
                   after == Split(ContentOf(Output,
                                DistInfoDir(NewName, OldVersion) \o "/METADATA"), "\n")
               IN  /\ Len(after) = Len(before)
                   /\ \A i \in 1..Len(before) :
                         StartsWith(before[i], "Requires-Dist: ") =>
                            IF \E d \in call.rename_deps :
                                  normalize_name(d[1]) = normalize_name(DepName(before[i]))
                            THEN \E d \in call.rename_deps :
                                  /\ normalize_name(d[1]) = normalize_name(DepName(before[i]))
                                  /\ after[i] = "Requires-Dist: " \o d[2] \o DepRest(before[i])
                            ELSE after[i] = before[i]

(***************************************************************************)
(* C10                                                                     *)
(***************************************************************************)

\* The name of the wheel rename_wheel wrote.
OutputWheelName ==
    LET parts == Split(outcome.path, "/") IN parts[Len(parts)]

\* C10: the wheel written by rename_wheel is named as the source wheel with
\* its first segment, the distribution, replaced by the normalised new name:
\* version, build tag, interpreter, ABI and platform are the source's.
C10_OutputFilename ==
    call.op = "rename_wheel" /\ Returned =>
        /\ PathSuffix(OutputWheelName) = ".whl"
        /\ Split(PathStem(OutputWheelName), "-")
             = <<NewName>> \o Tail(Split(PathStem(call.wheel_name), "-"))
        /\ outcome.path \in DOMAIN disk

\* rename_wheel wrote a wheel whose source name has a build tag and a
\* compound platform tag; and one whose version is a dev/local version.
C10_Witness ==
    /\ call.op = "rename_wheel" /\ Returned
    /\ Len(Split(PathStem(call.wheel_name), "-")) = 6
    /\ Contains(Split(PathStem(call.wheel_name), "-")[6], ".")

C10_WitnessDevVersion ==
    /\ call.op = "rename_wheel" /\ Returned
    /\ Contains(Split(PathStem(call.wheel_name), "-")[2], "+")

(***************************************************************************)
(* C11                                                                     *)
(***************************************************************************)

\* A well-formed wheel filename: the extension .whl after five non-empty
\* dash-separated segments, or six with a build tag that begins with a digit.
WellFormedFilename(f) ==
    /\ PathSuffix(f) = ".whl"
    /\ LET parts == Split(PathStem(f), "-")
       IN  /\ \A i \in 1..Len(parts) : Len(parts[i]) > 0
           /\ \/ Len(parts) = 5
              \/ Len(parts) = 6 /\ IsDigit(Ch(parts[3], 1))

\* The names of the wheel files on disk: the source and the wheel written.
WheelFilesOnDisk ==
    {LET parts == Split(p, "/") IN parts[Len(parts)] : p \in DOMAIN disk}

\* C11: round trip of the filename grammar: every well-formed wheel
\* filename f parses without an error, and building a filename from the
\* parsed components gives f back.
C11_FilenameRoundTrip ==
    \A f \in WheelFilesOnDisk :
        WellFormedFilename(f) =>
            /\ parse_wheel_filename(f).raises = ""
            /\ build_wheel_filename(parse_wheel_filename(f)) = f

\* rename_wheel parsed a six-segment source name with a build tag and a
\* compound platform tag, and built the name of the wheel it wrote: both
\* well-formed names are on disk.
C11_Witness ==
    /\ call.op = "rename_wheel" /\ Returned
    /\ Cardinality(WheelFilesOnDisk) = 2
    /\ \A f \in WheelFilesOnDisk :
          /\ WellFormedFilename(f)
          /\ parse_wheel_filename(f).build # ""
          /\ Contains(parse_wheel_filename(f).platform, ".")

(***************************************************************************)
(* What the claims about the proxy speak of                                *)
(***************************************************************************)

\* The rule that handles the requested project: the first configured rule
\* whose new name and the requested name are equal when normalised; NoRule
\* when the project is not virtual.
MatchingRules ==
    {i \in 1..Len(config.renames) :
        normalize_name(config.renames[i].new_name) = normalize_name(request.project)}
RequestRule ==
    IF MatchingRules = {} THEN NoRule ELSE config.renames[Nth(MatchingRules, 1)]

Virtual == request.op # "none" /\ RequestRule # NoRule
Passthrough == request.op # "none" /\ RequestRule = NoRule

\* The upstream project whose listing the request needs, and the answer of
\* the i-th configured upstream for it.
ListedProject == IF RequestRule # NoRule THEN RequestRule.original ELSE request.project
Answer(i) == Serve(index, config.upstreams[i], ListedProject)
ListUrl(i) == RStrip(config.upstreams[i], "/") \o "/" \o ListedProject \o "/"

\* The first upstream, in priority order, that answers the listing request
\* successfully (0: none does), and the links of its page.
Succeeding == {i \in 1..Len(config.upstreams) : Answer(i).status = 200}
Supplier == IF Succeeding = {} THEN 0 ELSE Nth(Succeeding, 1)
UpstreamLinks == IF Supplier = 0 THEN <<>> ELSE Answer(Supplier).links

\* The listing requests sent upstream, in order.
ListQueries == SelectSeq(queries, LAMBDA q : q.kind = "list")

\* The text of a filename after its distribution segment, from the first
\* dash on; the version segment of a filename.
AfterDistribution(filename) == Drop(filename, IndexOf(filename, "-") - 1)
VersionSegment(filename) == Split(filename, "-")[2]

\* The filenames the listing of the requested project advertises.
Advertised ==
    {project_index(config, index, request.project).response.links[k].text :
        k \in 1..Len(project_index(config, index, request.project).response.links)}

(***************************************************************************)
(* C12                                                                     *)
(***************************************************************************)

\* Spellings of project names to look up.
LookupNames == {"my_pkg_v1", "my-pkg-v1", "My.Pkg__V1", "MY_PKG_V1", "my_pkg.old",
                "My-Pkg-Old", "my_pkg", "My.Pkg", "nothing"}

\* C12: rule lookup goes by the normalised name: every name whose
\* normalised form is that of the requested project gets the rule the
\* request got (or no rule, as the request), and that rule is the first
\* configured rule whose new name normalises to the requested name.
C12_NormalizationEquivalence ==
    request.op # "none" =>
        /\ get_rename_rule(config.renames, request.project) = RequestRule
        /\ \A n \in LookupNames :
              normalize_name(n) = normalize_name(request.project) =>
                 get_rename_rule(config.renames, n)
                    = get_rename_rule(config.renames, request.project)

\* A request under a spelling that differs from the rule's new name in
\* case and separators was handled by that rule.
C12_Witness ==
    /\ request.op = "project_index"
    /\ request.project = "My-Pkg.V1"
    /\ get_rename_rule(config.renames, request.project).new_name = "my_pkg_v1"
    /\ response.status = 200

(***************************************************************************)
(* C13                                                                     *)
(***************************************************************************)

\* C13: the listing of a virtual project has one record per upstream record
\* kept; its filename is the upstream filename with the distribution
\* segment replaced by the rule's new name and the rest unchanged, and its
\* URL is the proxy's own download path for that filename, not the
\* upstream URL.
C13_VirtualListingRewrite ==
    request.op = "project_index" /\ Virtual /\ response.status = 200 =>
        LET packages == PagePackages(UpstreamLinks, RequestRule)
        IN  /\ Len(response.links) = Len(packages)
            /\ \A k \in 1..Len(packages) :
                  /\ response.links[k].text
                       = RequestRule.new_name \o AfterDistribution(packages[k].filename)
                  /\ Split(response.links[k].href, "#")[1] = response.links[k].text
                  /\ response.links[k].href # packages[k].url

(***************************************************************************)
(* C14                                                                     *)
(***************************************************************************)

\* A version string parses and satisfies the constraint.
Satisfies(version, version_spec) ==
    Version(version).ok /\ InSpecifierSet(Version(version), version_spec)

\* C14: under a rule with a version constraint every record of the listing
\* has a version that parses and satisfies the constraint; the listing is
\* answered (with the records, or not found when none is left) whatever
\* the versions upstream, and a wheel upstream whose version satisfies the
\* constraint is listed.
C14_VersionFiltering ==
    request.op = "project_index" /\ Virtual /\ RequestRule.version_spec # None =>
        /\ response.status \in {200, 404}
        /\ \A k \in 1..Len(response.links) :
              Satisfies(VersionSegment(response.links[k].text), RequestRule.version_spec)
        /\ \A j \in 1..Len(UpstreamLinks) :
              /\ package_type(UpstreamLinks[j].filename) = "wheel"
              /\ Satisfies(VersionSegment(UpstreamLinks[j].filename),
                           RequestRule.version_spec)
              => /\ response.status = 200
                 /\ \E k \in 1..Len(response.links) :
                       AfterDistribution(response.links[k].text)
                          = AfterDistribution(UpstreamLinks[j].filename)

\* A listing under a version constraint was answered from a page that has
\* a wheel whose version does not parse next to one that satisfies the
\* constraint.
C14_Witness ==
    /\ request.op = "project_index" /\ Virtual /\ RequestRule.version_spec # None
    /\ response.status = 200
    /\ \E j \in 1..Len(UpstreamLinks) :
          /\ package_type(UpstreamLinks[j].filename) = "wheel"
          /\ ~Version(VersionSegment(UpstreamLinks[j].filename)).ok
    /\ Len(response.links) < Len(UpstreamLinks)

\* A listing under a version constraint left out a wheel whose version
\* parses and is not below the bound.
C14_WitnessAboveBound ==
    /\ request.op = "project_index" /\ Virtual /\ RequestRule.version_spec # None
    /\ response.status = 200
    /\ \E j \in 1..Len(UpstreamLinks) :
          /\ package_type(UpstreamLinks[j].filename) = "wheel"
          /\ Version(VersionSegment(UpstreamLinks[j].filename)).ok
          /\ ~Satisfies(VersionSegment(UpstreamLinks[j].filename),
                        RequestRule.version_spec)

(***************************************************************************)
(* C15                                                                     *)
(***************************************************************************)

\* C15: the filename mapping of the download endpoint inverts the rewrite
\* of the listing: a download request for a filename that the listing of
\* the virtual project advertises is mapped back to the upstream filename
\* that was rewritten to it, and is not answered "not found".
C15_ListingDownloadInverse ==
    request.op = "download_wheel" /\ Virtual /\ request.filename \in Advertised =>
        /\ response.status # 404
        /\ \E j \in 1..Len(UpstreamLinks) :
              /\ UpstreamLinks[j].filename
                   = original_filename_from_renamed(request.filename,
                         RequestRule.original, RequestRule.new_name)
              /\ ReplaceFirst(UpstreamLinks[j].filename, RequestRule.original \o "-",
                              RequestRule.new_name \o "-") = request.filename

(***************************************************************************)
(* C16                                                                     *)
(***************************************************************************)

\* The lines of the METADATA entries of an archive.
MetadataLinesOf(a) ==
    UNION {{Split(ContentOf(a, n), "\n")[i] : i \in 1..Len(Split(ContentOf(a, n), "\n"))} :
             n \in {m \in Names(a) : EndsWith(m, ".dist-info/METADATA")}}

\* C16: a download of an advertised filename of a virtual project answers
\* 200 with the upstream wheel renamed to the rule's new name: the package
\* root is {new}/ and no entry is left under the old root, METADATA
\* declares the new name, the bytes are not the upstream's, and the
\* Content-Disposition names the requested filename; it is never a redirect.
C16_VirtualDownload ==
    request.op = "download_wheel" /\ Virtual /\ request.filename \in Advertised =>
        /\ response.status = 200
        /\ response.location = ""
        /\ response.disposition = "attachment; filename=\"" \o request.filename \o "\""
        /\ \E n \in Names(response.content) :
              StartsWith(n, normalize_name(RequestRule.new_name) \o "/")
        /\ \A n \in Names(response.content) : ~StartsWith(n, ServedProject \o "/")
        /\ "Name: " \o RequestRule.new_name \in MetadataLinesOf(response.content)
        /\ \A q \in {queries[i] : i \in 1..Len(queries)} :
              q.kind = "download" => response.content # WheelBytes(q.url)

(***************************************************************************)
(* C17                                                                     *)
(***************************************************************************)

\* C17: the listing requests sent are those to the upstreams in priority
\* order, from the first up to and including the first that answers
\* successfully, each after the one before answered 404 or failed; when
\* none answers successfully all were asked, one after the other, and the
\* request is answered "not found", not with a failure.
C17_UpstreamFallthrough ==
    request.op # "none" =>
        /\ Len(ListQueries)
             = (IF Supplier = 0 THEN Len(config.upstreams) ELSE Supplier)
        /\ \A j \in 1..Len(ListQueries) :
              /\ ListQueries[j].url = ListUrl(j)
              /\ j < Len(ListQueries) => Answer(j).status # 200
        /\ Supplier = 0 => response.status = 404

\* The first upstream failed with a server error or a transport error, the
\* second was then asked and supplied the listing.
C17_Witness ==
    /\ request.op = "project_index"
    /\ Len(ListQueries) = 2
    /\ Answer(1).status \in {500, TransportError}
    /\ Supplier = 2
    /\ response.status = 200

\* Every upstream was asked and none had the project: not found.
C17_WitnessExhausted ==
    /\ request.op # "none"
    /\ Len(ListQueries) = 2
    /\ Supplier = 0
    /\ Answer(1).status = 404 /\ Answer(2).status = 500
    /\ response.status = 404

(***************************************************************************)
(* C18                                                                     *)
(***************************************************************************)

\* The upstreams that answer successfully with at least one record.
NonEmpty ==
    {i \in 1..Len(config.upstreams) :
        /\ Answer(i).status = 200
        /\ Len(PagePackages(Answer(i).links, RequestRule)) > 0}

\* C18: the listing is made of the records of the first upstream, in
\* priority order, that answers successfully with at least one record: an
\* upstream that answers successfully without records is passed over.
C18_FirstNonEmptyResult ==
    request.op = "project_index" /\ NonEmpty # {} =>
        /\ response.status = 200
        /\ response.links
             = generate_project_index(
                   PagePackages(Answer(Nth(NonEmpty, 1)).links, RequestRule), RequestRule)

(***************************************************************************)
(* C19                                                                     *)
(***************************************************************************)

\* C19: a download request for a project without a rule is answered with a
\* redirect to the upstream URL of the record with that filename in the
\* upstream listing, and with "not found" when the listing has no such
\* record; the proxy downloads no bytes from upstream.
C19_PassthroughDownload ==
    request.op = "download_wheel" /\ Passthrough =>
        /\ \A i \in 1..Len(queries) : queries[i].kind # "download"
        /\ response.content = <<>>
        /\ IF \E j \in 1..Len(UpstreamLinks) : UpstreamLinks[j].filename = request.filename
           THEN /\ response.status = 302
                /\ \E j \in 1..Len(UpstreamLinks) :
                      /\ UpstreamLinks[j].filename = request.filename
                      /\ response.location = UpstreamLinks[j].url
           ELSE response.status = 404

(***************************************************************************)
(* C20                                                                     *)
(***************************************************************************)

\* The digest fragment of an href ("" without one).
Fragment(href) == IF Contains(href, "#") THEN Drop(href, IndexOf(href, "#")) ELSE ""

\* C20: the listing of a project without a rule has exactly the records of
\* the upstream page, in order: filename, URL and requires-python as
\* upstream, the digest one of the upstream's, and no record left out.
C20_PassthroughListing ==
    request.op = "project_index" /\ Passthrough /\ Len(UpstreamLinks) > 0 =>
        /\ response.status = 200
        /\ Len(response.links) = Len(UpstreamLinks)
        /\ \A k \in 1..Len(UpstreamLinks) :
              /\ response.links[k].text = UpstreamLinks[k].filename
              /\ Split(response.links[k].href, "#")[1] = UpstreamLinks[k].url
              /\ response.links[k].requires_python = UpstreamLinks[k].requires_python
              /\ IF DOMAIN UpstreamLinks[k].digests = {}
                 THEN Fragment(response.links[k].href) = ""
                 ELSE \E algo \in DOMAIN UpstreamLinks[k].digests :
                         Fragment(response.links[k].href)
                            = algo \o "=" \o UpstreamLinks[k].digests[algo]

(***************************************************************************)
(* C21                                                                     *)
(***************************************************************************)

\* The upstream records that pass the version filter of the request's rule.
VersionFiltered ==
    {UpstreamLinks[j].filename :
        j \in {k \in 1..Len(UpstreamLinks) :
                  \/ RequestRule.version_spec = None
                  \/ Satisfies(VersionSegment(UpstreamLinks[k].filename),
                               RequestRule.version_spec)}}

\* The filename of the request mapped back to the upstream's.
MappedBack ==
    original_filename_from_renamed(request.filename, RequestRule.original,
                                   RequestRule.new_name)

\* The downloads of bytes started upstream; the filename a URL ends with.
Downloads == SelectSeq(queries, LAMBDA q : q.kind = "download")
UrlFilename(url) == Split(url, "/")[Len(Split(url, "/"))]

\* The versions the METADATA of an archive declares.
DeclaredVersions(a) ==
    {Drop(line, Len("Version: ")) :
        line \in {l \in MetadataLinesOf(a) : StartsWith(l, "Version: ")}}

\* C21: a download request for a virtual project whose mapped-back filename
\* is not among the version-filtered upstream records is answered "not
\* found" without any download of bytes; so, after any sequence of listing
\* and download requests, under a rule with a constraint every download
\* started is for a file whose version satisfies the constraint and the
\* bytes served declare such a version.
C21_DownloadEnforcesRule ==
    request.op = "download_wheel" /\ Virtual =>
        /\ MappedBack \notin VersionFiltered =>
              response.status = 404 /\ Len(Downloads) = 0
        /\ RequestRule.version_spec # None =>
              /\ \A i \in 1..Len(Downloads) :
                    Satisfies(VersionSegment(UrlFilename(Downloads[i].url)),
                              RequestRule.version_spec)
              /\ response.status = 200 => Len(Downloads) = 1
              /\ \A v \in DeclaredVersions(response.content) :
                    Satisfies(v, RequestRule.version_spec)

\* A file the upstream lists with a version the constraint excludes was
\* requested under the name it would have in the virtual project, and was
\* not found.
C21_Witness ==
    /\ request.op = "download_wheel" /\ Virtual /\ RequestRule.version_spec # None
    /\ \E j \in 1..Len(UpstreamLinks) :
          /\ UpstreamLinks[j].filename = MappedBack
          /\ request.filename = ExpectedName(MappedBack, RequestRule)
          /\ request.filename # MappedBack
          /\ Version(VersionSegment(MappedBack)).ok
          /\ ~Satisfies(VersionSegment(MappedBack), RequestRule.version_spec)
    /\ response.status = 404

\* A file whose version satisfies the constraint was served from the same
\* page that lists an excluded one.
C21_WitnessServed ==
    /\ request.op = "download_wheel" /\ Virtual /\ RequestRule.version_spec # None
    /\ response.status = 200
    /\ DeclaredVersions(response.content) # {}
    /\ \E j \in 1..Len(UpstreamLinks) :
          UpstreamLinks[j].filename \notin VersionFiltered

(***************************************************************************)
(* C22                                                                     *)
(***************************************************************************)

\* The download of the bytes failed: a status that is not 2xx, or a
\* transport failure.
FetchFailed(q) == q.status = TransportError \/ q.status \notin 200..299

\* C22: when the download of the located file's bytes fails, it is the only
\* download and the last request sent upstream (no retry, no other
\* upstream), and the request ends with a server error that carries no
\* bytes; a successful response with bytes comes from a download that
\* succeeded and its bytes are not the upstream's.
C22_DownloadFailureTerminal ==
    request.op = "download_wheel" =>
        /\ \A i \in 1..Len(queries) :
              queries[i].kind = "download" /\ FetchFailed(queries[i]) =>
                 /\ i = Len(queries)
                 /\ Len(Downloads) = 1
                 /\ response.status >= 500
                 /\ response.content = <<>>
                 /\ response.location = ""
        /\ response.status = 200 =>
              /\ Len(Downloads) = 1
              /\ ~FetchFailed(Downloads[1])
              /\ response.content # WheelBytes(Downloads[1].url)

\* The download of a file failed with an error status while the other
\* upstream lists the same file.
C22_Witness ==
    /\ request.op = "download_wheel" /\ Virtual
    /\ Len(Downloads) = 1 /\ Downloads[1].status = 503
    /\ response.status = 500
    /\ \E u \in DOMAIN index :
          /\ ~StartsWith(Downloads[1].url, RStrip(u, "/") \o "/")
          /\ index[u].status = 200
          /\ UrlFilename(Downloads[1].url) \in
                {index[u].links[k].filename : k \in 1..Len(index[u].links)}

\* The download of a file failed in the transport.
C22_WitnessTransport ==
    /\ request.op = "download_wheel" /\ Virtual
    /\ Len(Downloads) = 1 /\ Downloads[1].status = TransportError
    /\ response.status = 500

(***************************************************************************)
(* C23                                                                     *)
(***************************************************************************)

\* The bytes of an archive as one text.
RECURSIVE ArchiveText(_)
ArchiveText(a) ==
    IF Len(a) = 0 THEN ""
    ELSE a[1].name \o "\n" \o a[1].content \o "\n" \o ArchiveText(Tail(a))

\* The digest of bytes under an algorithm: the one the upstreams publish
\* for the bytes of a file they serve, and for any other bytes a digest
\* computed from them.
DigestOf(algo, bytes) ==
    IF \E k \in 1..Len(FilePool) :
          WheelBytes(FilePool[k].filename) = bytes /\ algo \in DOMAIN FilePool[k].digests
    THEN FilePool[CHOOSE k \in 1..Len(FilePool) :
                     /\ WheelBytes(FilePool[k].filename) = bytes
                     /\ algo \in DOMAIN FilePool[k].digests].digests[algo]
    ELSE ToDec(Checksum(ArchiveText(bytes), 1, Len(ArchiveText(bytes))))

\* The links of the listing of the requested project.
ListingLinks == project_index(config, index, request.project).response.links

\* C23: when a download of a virtual project is answered with bytes, every
\* digest fragment the listing of that project advertises for the
\* requested filename is the digest of the bytes served.
C23_DigestConsistency ==
    request.op = "download_wheel" /\ Virtual /\ response.status = 200 =>
        \A k \in 1..Len(ListingLinks) :
            /\ ListingLinks[k].text = request.filename
            /\ Fragment(ListingLinks[k].href) # ""
            => Fragment(ListingLinks[k].href)
                  = Split(Fragment(ListingLinks[k].href), "=")[1] \o "="
                    \o DigestOf(Split(Fragment(ListingLinks[k].href), "=")[1],
                                response.content)

(***************************************************************************)
(* C24                                                                     *)
(***************************************************************************)

\* The entries of an archive but its manifests.
NonManifest(a) == Names(a) \ ManifestPaths(a)

\* C24: after a rename no entry is lost or merged: distinct non-manifest
\* source entries have distinct renamed paths; the output has one entry per
\* path, one per non-manifest source entry plus the manifest; the only
\* manifest of the output is the RECORD of the new metadata directory, it
\* ends with its own line, and no manifest path of the source is left.
C24_NoEntryLostOrMerged ==
    Renamed =>
        /\ \A n, m \in NonManifest(Source) :
              n # m => RenamedPath(n) # RenamedPath(m)
        /\ Cardinality(Names(Output)) = Len(Output)
        /\ Len(Output) = Cardinality(NonManifest(Source)) + 1
        /\ ManifestPaths(Output) = {DistInfoDir(NewName, OldVersion) \o "/RECORD"}
        /\ ManifestLines(Output)[Len(ManifestLines(Output))]
              = DistInfoDir(NewName, OldVersion) \o "/RECORD" \o ",,"
        /\ \A m \in ManifestPaths(Source) : m \notin Names(Output)

(***************************************************************************)
(* C25                                                                     *)
(***************************************************************************)

\* The distribution and version of the wheel's filename are those of the
\* archive's metadata directory.
NamesAgree ==
    /\ SourceExists
    /\ PathSuffix(call.wheel_name) = ".whl"
    /\ parse_wheel_filename(call.wheel_name).raises = ""
    /\ MetadataDirs(Source)
          = {DistInfoDir(parse_wheel_filename(call.wheel_name).distribution,
                         parse_wheel_filename(call.wheel_name).version)}

\* The other of the two operations on the source and arguments of the call.
OtherOperation ==
    IF call.op = "rename_wheel"
    THEN rename_wheel_from_bytes(Source, call.new_name, call.update_imports)
    ELSE rename_wheel(TRUE, call.wheel_name, Source, call.new_name, call.update_imports)

\* The entries of an archive, as a set.
Entries(a) == {a[i] : i \in 1..Len(a)}

\* C25: on an archive whose filename and metadata directory agree on
\* distribution and version, rename_wheel and rename_wheel_from_bytes with
\* the same new name and options both produce an archive, and the two
\* archives have the same entries: paths, contents and manifest.
C25_FileAndInMemoryAgree ==
    call.op # "none" /\ call.rename_deps = NoDeps /\ NamesAgree =>
        /\ outcome.raises = "" /\ OtherOperation.raises = ""
        /\ Entries(Output) = Entries(OtherOperation.archive)

(***************************************************************************)
(* C26                                                                     *)
(***************************************************************************)

\* The reserved prefixes of the old name that a path lies under.
MatchingPrefixes(n) == {p \in ReservedPrefixes(OldName, OldVersion) : Under(n, p)}

\* C26: path rewriting is prefix-only: a source path lies under at most one
\* of the three reserved prefixes of the old name; the output has the entry
\* of every non-manifest source path under the new prefix followed by the
\* same remainder when the path lies under a reserved prefix and under the
\* same path when it lies under none, and has no other non-manifest entry.
C26_PrefixOnlyRewrite ==
    Renamed =>
        /\ \A n \in Names(Source) : Cardinality(MatchingPrefixes(n)) <= 1
        /\ \A n \in NonManifest(Source) :
              /\ RenamedPath(n) \in Names(Output)
              /\ MatchingPrefixes(n) = {} => RenamedPath(n) = n
              /\ \A p \in MatchingPrefixes(n) :
                    /\ Drop(RenamedPath(n), Len(RenamedPath(n)) - (Len(n) - Len(p)))
                          = Drop(n, Len(p))
                    /\ SubSeq(RenamedPath(n), 1, Len(RenamedPath(n)) - (Len(n) - Len(p)))
                          \in ReservedPrefixes(NewName, OldVersion)
        /\ NonManifest(Output) \subseteq {RenamedPath(n) : n \in NonManifest(Source)}

(***************************************************************************)
(* C27                                                                     *)
(***************************************************************************)

\* A path after its first component.
PathRest(n) == IF Contains(n, "/") THEN Drop(n, IndexOf(n, "/")) ELSE ""

\* The entries whose content a rename may rewrite: the metadata entry and,
\* with import rewriting on, the entries whose final path ends in .py.
MayRewrite(p) ==
    \/ p = DistInfoDir(NewName, OldVersion) \o "/METADATA"
    \/ call.update_imports /\ EndsWith(p, ".py")

\* The same operation on the same source with import rewriting on.
WithImportRewriting ==
    IF call.op = "rename_wheel"
    THEN rename_wheel(TRUE, call.wheel_name, Source, call.new_name, TRUE)
    ELSE rename_wheel_from_bytes(Source, call.new_name, TRUE)

\* C27: after a rename every output entry other than the manifest, the
\* metadata entry and, with import rewriting on, the .py entries has the
\* bytes of a source entry with the same path below the first component;
\* with import rewriting off this covers the .py entries, and the output
\* paths are those of the rename with import rewriting on.
C27_ContentFrame ==
    Renamed =>
        /\ \A p \in NonManifest(Output) :
              ~MayRewrite(p) =>
                 \E n \in NonManifest(Source) :
                    /\ PathRest(n) = PathRest(p)
                    /\ ContentOf(Source, n) = ContentOf(Output, p)
        /\ ~call.update_imports => Names(Output) = Names(WithImportRewriting.archive)

\* With import rewriting on, an entry that is not a .py file and holds an
\* import of the old package was moved under the new data directory with
\* its bytes unchanged.
C27_Witness ==
    /\ Renamed /\ call.update_imports
    /\ \E n \in NonManifest(Source) :
          /\ ~EndsWith(n, ".py")
          /\ HasReferenceTo(ContentOf(Source, n), OldName)
          /\ RenamedPath(n) # n
          /\ RenamedPath(n) \in Names(Output)
          /\ ContentOf(Output, RenamedPath(n)) = ContentOf(Source, n)

\* With import rewriting off, a .py entry that imports the old package was
\* moved under the new package root with its bytes unchanged.
C27_WitnessImportsOff ==
    /\ Renamed /\ ~call.update_imports
    /\ \E n \in NonManifest(Source) :
          /\ EndsWith(n, ".py")
          /\ HasReferenceTo(ContentOf(Source, n), OldName)
          /\ RenamedPath(n) # n
          /\ RenamedPath(n) \in Names(Output)
          /\ ContentOf(Output, RenamedPath(n)) = ContentOf(Source, n)

(***************************************************************************)
(* C28                                                                     *)
(***************************************************************************)

\* The archives with the entries of an archive in any order.
Reordered(a) ==
    {b \in [1..Len(a) -> Entries(a)] : \A i, j \in 1..Len(a) : i # j => b[i] # b[j]}

\* The operation of the call on another archive with the same arguments.
SameOperationOn(a) ==
    IF call.op = "rename_wheel"
    THEN rename_wheel(TRUE, call.wheel_name, a, call.new_name, call.update_imports)
    ELSE rename_wheel_from_bytes(a, call.new_name, call.update_imports)

\* The text of the manifest of an archive.
ManifestText(a) == ContentOf(a, CHOOSE m \in ManifestPaths(a) : TRUE)

\* C28: the regenerated manifest has one line per non-manifest output
\* entry, in ascending order of path, then one last line for the manifest
\* itself with empty digest and size; and the rename of the same entries in
\* any other order produces the same manifest text.
C28_ManifestOrdering ==
    Renamed =>
        /\ Len(ManifestLines(Output)) = Cardinality(NonManifest(Output)) + 1
        /\ \A i \in 1..(Len(ManifestLines(Output)) - 1) :
              /\ LinePath(ManifestLines(Output)[i]) \in NonManifest(Output)
              /\ \A j \in (i + 1)..(Len(ManifestLines(Output)) - 1) :
                    StrLess(LinePath(ManifestLines(Output)[i]),
                            LinePath(ManifestLines(Output)[j]))
        /\ ManifestLines(Output)[Len(ManifestLines(Output))]
              = DistInfoDir(NewName, OldVersion) \o "/RECORD,,"
        /\ \A b \in Reordered(Source) :
              /\ SameOperationOn(b).raises = ""
              /\ ManifestText(SameOperationOn(b).archive) = ManifestText(Output)

(***************************************************************************)
(* C29                                                                     *)
(***************************************************************************)

\* The dash-separated segments of a filename without its extension.
Segments(f) == Split(PathStem(f), "-")

\* The segment begins with a digit.
BeginsWithDigit(seg) == Len(seg) > 0 /\ IsDigit(Ch(seg, 1))

\* C29: parsing a filename fails with the malformed-filename error when
\* fewer than five segments remain after the extension, and returns
\* components for every other filename: the third segment as the build tag
\* and segments 4 to 6 as the tags exactly when the third segment begins
\* with a digit, otherwise no build tag and segments 3 to 5 as the tags;
\* rename_wheel raises the malformed-filename error for the former and no
\* other parsing failure for the latter.
C29_FilenameParsing ==
    /\ \A f \in WheelFilesOnDisk :
          IF Len(Segments(f)) < 5
          THEN parse_wheel_filename(f).raises = "ValueError"
          ELSE /\ parse_wheel_filename(f).raises = ""
               /\ parse_wheel_filename(f).distribution = Segments(f)[1]
               /\ parse_wheel_filename(f).version = Segments(f)[2]
               /\ IF BeginsWithDigit(Segments(f)[3])
                  THEN /\ Len(Segments(f)) >= 6
                       /\ parse_wheel_filename(f).build = Segments(f)[3]
                       /\ parse_wheel_filename(f).python = Segments(f)[4]
                       /\ parse_wheel_filename(f).abi = Segments(f)[5]
                       /\ parse_wheel_filename(f).platform = Segments(f)[6]
                  ELSE /\ parse_wheel_filename(f).build = ""
                       /\ parse_wheel_filename(f).python = Segments(f)[3]
                       /\ parse_wheel_filename(f).abi = Segments(f)[4]
                       /\ parse_wheel_filename(f).platform = Segments(f)[5]
    /\ call.op = "rename_wheel" /\ call.rename_deps = NoDeps /\ SourceExists
          /\ PathSuffix(call.wheel_name) = ".whl" =>
             IF Len(Segments(call.wheel_name)) < 5
             THEN outcome.raises = "ValueError" /\ outcome.msg = "Invalid wheel filename"
             ELSE /\ outcome.msg # "Invalid wheel filename"
                  /\ outcome.raises \in {"", "ValueError"}

(***************************************************************************)
(* C30                                                                     *)
(***************************************************************************)

\* The server has started.
Started == lifespan # "created"

\* The shutdown of the server has begun.
ShuttingDown == lifespan \in {"closing", "stopped"}

\* The handlers of requests that need an upstream and have been received.
UpstreamHandlers ==
    {h \in 1..MaxRequests : handlers[h].kind \in {"project_index", "download_wheel"}}

\* C30: one transport is created per server, at startup, and it is closed
\* once, at shutdown, both by the lifespan and never by a request handler;
\* every upstream request of a handler goes through that transport while
\* the server is running, and a request handled wholly between startup and
\* shutdown does not fail for want of a transport; a request received before
\* startup, or once shutdown has begun, is answered with an error and has
\* used no transport.
C30_TransportLifecycle ==
    /\ Len(transports) = IF Started THEN 1 ELSE 0
    /\ \A t \in 1..Len(transports) :
          /\ transports[t].created_by = "lifespan"
          /\ transports[t].closes = IF ShuttingDown THEN 1 ELSE 0
          /\ transports[t].state = IF ShuttingDown THEN "closed" ELSE "open"
          /\ transports[t].closed_by = IF ShuttingDown THEN "lifespan" ELSE ""
    /\ \A h \in UpstreamHandlers :
          /\ \A u \in handlers[h].uses : u.phase = "running" /\ u.transport = 1
          /\ handlers[h].began = "running" /\ handlers[h].ended = "running"
                => handlers[h].error # "RuntimeError"
          /\ handlers[h].began # "running"
                => /\ handlers[h].pc = "done"
                   /\ handlers[h].status >= 400
                   /\ handlers[h].uses = {}
          /\ handlers[h].began = "created"
                => handlers[h].status = 500 /\ handlers[h].error = "RuntimeError"

\* The server has stopped; one request was received after it stopped and
\* failed on the missing transport, another was a download handled while the
\* server ran, which used the transport and was served.
C30_Witness ==
    /\ lifespan = "stopped"
    /\ \E h1, h2 \in UpstreamHandlers :
          /\ handlers[h1].began = "stopped"
          /\ handlers[h1].error = "RuntimeError"
          /\ handlers[h2].kind = "download_wheel"
          /\ handlers[h2].began = "running" /\ handlers[h2].ended = "running"
          /\ handlers[h2].uses # {} /\ handlers[h2].status = 200

\* A request received before startup has failed, and another is in flight
\* on the transport created since.
C30_WitnessBefore ==
    \E h1, h2 \in UpstreamHandlers :
       /\ handlers[h1].began = "created" /\ handlers[h1].status = 500
       /\ handlers[h2].pc = "wheel"

\* Two requests are in flight at once on the transport.
C30_WitnessConcurrent ==
    /\ lifespan = "running"
    /\ \A h \in 1..MaxRequests : handlers[h].pc \in {"page", "wheel"}

\* A request in flight when the transport is closed fails at its next
\* upstream request.
C30_WitnessInFlight ==
    \E h \in UpstreamHandlers :
       /\ handlers[h].began = "running" /\ handlers[h].ended \in {"closing", "stopped"}
       /\ handlers[h].uses # {} /\ handlers[h].error = "RuntimeError"

====
